---- MODULE Spec2Model ----
(***************************************************************************)
(* Model of the interactive tile puzzle of                                 *)
(* src/src/elective4group8/puzzle_shuffle.py (class PuzzleShuffleGUI).      *)
(*                                                                         *)
(* Python lists are functions over 0..n-1 (tile_order, tiles) so that the  *)
(* indices of the model are the indices of the code; self.selected, a list *)
(* used as a stack of at most one element, is a sequence.  An image is the *)
(* record of its file identity and its shape; pixel arithmetic that the    *)
(* code does in floating point (w * scale, x // (w / gw)) is done exactly  *)
(* on integers.  A Tk callback that raises is reported by Tk and the main  *)
(* loop goes on, so a handler that raises is a transition to the state the *)
(* handler had built up to the raise.  The callbacks scheduled with        *)
(* root.after are the timer queue of Tk: the pending _resize_update        *)
(* callbacks by their identifiers, the pending hint reverts by their       *)
(* number (show_hint keeps no identifier of them).                         *)
(*                                                                         *)
(* The module-level function shuffle_image_puzzle is an operator; its      *)
(* callers are specifications of their own: SpecBatch keeps the orders     *)
(* returned so far, SpecCalls the last result, SpecFiles is                *)
(* process_all_images over the files of INPUT_DIR, run by interpreters     *)
(* that each draw the key of their str hashes.  A file name is the pair of *)
(* its root and extension; an image on disk is its shape, the tile at      *)
(* every position, and what is drawn on it.  The generators of module      *)
(* random (Mersenne Twister) are modelled by a linear congruential         *)
(* generator over a small modulus: a generator is its state, Random(seed)  *)
(* makes a new one from the seed, every draw advances the one it is made   *)
(* on.                                                                     *)
(*                                                                         *)
(* save_output writes into the same output_dir; the name it takes from     *)
(* self.input_path (the copy open_image made in input/, or "puzzle" when   *)
(* no copy succeeded) is an input of the action.  SpecExport is the window *)
(* with the Save button over directories that hold older files, SpecView   *)
(* the window with the Fill Box checkbox, the resize notifications and the *)
(* hint, SpecSolve a player who clicks a shuffled puzzle into order.       *)
(***************************************************************************)
EXTENDS Integers, Sequences, FiniteSets, TLC

VARIABLES
    orig_img,            \* self.orig_img: the loaded image, or None
    img,                 \* self.img: the working (resized) image, or None
    grid_size,           \* self.grid_size = (gh, gw)
    difficulty,          \* self.difficulty (tk.StringVar)
    fill_box,            \* self.fill_box (tk.BooleanVar)
    tile_order,          \* self.tile_order: position -> tile index, or None
    selected,            \* self.selected: the pending click, [] or [idx]
    tiles,               \* self.tiles: the tiles of the last shuffle, or None
    displayed_img_w,     \* self._displayed_img_w
    displayed_img_h,     \* self._displayed_img_h
    displayed_offset_x,  \* self._displayed_offset_x
    displayed_offset_y,  \* self._displayed_offset_y
    panel,               \* (winfo_width, winfo_height) of self.img_panel
    status,              \* text of the self.status label
    save_btn,            \* state of self.save_btn
    shown,               \* self.img_panel.image: what the panel shows
    resize_job,          \* self._resize_job: an after identifier, or None
    resize_timers,       \* pending after(100, self._resize_update) callbacks
    hint_timers,         \* pending after(3000, self._assemble_and_show)
    batch_results,       \* what the callers of shuffle_image_puzzle got back
    module_rng,          \* the generator shared by the functions of random
    returned,            \* the last call of shuffle_image_puzzle and its result
    hash_secret,         \* the key of str.__hash__ of the running interpreter
    input_dir,           \* the files of INPUT_DIR
    output_dir           \* the files of OUTPUT_DIR: name -> content

vars == <<orig_img, img, grid_size, difficulty, fill_box, tile_order, selected,
          tiles, displayed_img_w, displayed_img_h, displayed_offset_x,
          displayed_offset_y, panel, status, save_btn, shown, resize_job,
          resize_timers, hint_timers, batch_results, module_rng, returned,
          hash_secret, input_dir, output_dir>>

puzzle_vars == <<orig_img, img, grid_size, difficulty, tile_order, selected, tiles>>
display_vars == <<displayed_img_w, displayed_img_h, displayed_offset_x,
                  displayed_offset_y, shown>>
timer_vars == <<resize_job, resize_timers, hint_timers>>
file_vars == <<hash_secret, input_dir, output_dir>>
batch_vars == <<batch_results, module_rng, returned, file_vars>>
gui_vars == <<puzzle_vars, display_vars, timer_vars, fill_box, panel, status,
              save_btn>>

\* None, where the other values are records (images, the tiles)
None == [none |-> TRUE]

\* self.tile_order = None: the permutation is a function over 0..n-1 and the
\* code never builds an empty one, so the empty function stands for None
NoOrder == <<>>

\* self._resize_job = None: the identifiers of after are not empty, so 0
\* stands for None
NoJob == 0

\* ------------------------------------------------------------- constants

DIFFICULTY_GRID ==
    [easy |-> <<3, 3>>, medium |-> <<4, 4>>, hard |-> <<5, 5>>]

Difficulties == {"easy", "medium", "hard"}

\* max(self.img_panel.winfo_width(), 200)
MinPanel == 200
\* scale = min(700 / w, 650 / h, 1.0)
FitMaxW == 700
FitMaxH == 650

\* ---------------------------------------------------------------- bounds

\* A shuffle draws any permutation; the model draws those that move only the
\* first ShuffleSpan positions.
ShuffleSpan == 2

\* The states of a generator are 0 .. RngModulus - 1.
RngModulus == 8

\* The seeds handed to shuffle_image_puzzle are 0 .. MaxSeed.
MaxSeed == 1

\* The images and grids of the callers whose results are looked at: sides
\* smaller than a grid, multiples of some grids, prime; a grid that is not
\* square next to the three tiers.
CallImages ==
    { [id |-> "t.png", h |-> h, w |-> w] :
        h \in {2, 90, 121, 200}, w \in {2, 90, 121, 200} }
CallGrids == { <<2, 3>>, <<3, 3>>, <<4, 4>>, <<5, 5>> }

\* save_output is offered while OUTPUT_DIR holds fewer than MaxOutputFiles
\* files.
MaxOutputFiles == 2

\* The roots save_output names its files with: the default, and the name of
\* the image file.
SaveNames == { "puzzle", "a" }

\* The files OUTPUT_DIR can hold when the window opens: exports of earlier
\* sessions and a file of process_all_images.
OldFiles == { "a_puzzle.png", "a_puzzle_1.png", "a_solution.png" }

\* The orders installed at the start of the solving specification permute the
\* first SolveSpan positions in every way.
SolveSpan == 4

\* The keys of str.__hash__ are 0 .. MaxHashSecret.
MaxHashSecret == 2

\* hash(fname) is in -HashModulus .. HashModulus - 1, the seeds of
\* process_all_images in 0 .. HashModulus - 1.
HashModulus == 16

\* The files INPUT_DIR can hold: two images that share their root, an image
\* with an upper-case extension whose sides are no multiples of the grids, a
\* file that is no image, an image file that cannot be decoded.
BatchFiles ==
    { [name |-> <<"a", ".png">>, decodes |-> TRUE,  h |-> 200, w |-> 200],
      [name |-> <<"a", ".jpg">>, decodes |-> TRUE,  h |-> 120, w |-> 160],
      [name |-> <<"b", ".PNG">>, decodes |-> TRUE,  h |-> 90,  w |-> 121],
      [name |-> <<"notes", ".txt">>, decodes |-> FALSE, h |-> 0, w |-> 0],
      [name |-> <<"torn", ".png">>,  decodes |-> FALSE, h |-> 0, w |-> 0] }

\* INPUT_DIR holds at most MaxFiles of them.
MaxFiles == 2

\* The grids handed to shuffle_image_puzzle.
BatchGrids == { <<3, 3>>, <<4, 4>> }

\* The images handed to shuffle_image_puzzle: two files of different content
\* and shape, one of them not a multiple of the grids.
BatchImages ==
    { [id |-> "a.png", h |-> 200, w |-> 200],
      [id |-> "b.png", h |-> 90, w |-> 121] }

\* The images loaded where the cut and the reassembly are compared: sides
\* smaller than a grid, prime, multiples of some grids, larger than the fit
\* box of shuffle.
CutImages ==
    { [id |-> "a.png", h |-> h, w |-> w] :
        h \in {3, 7, 121, 200, 653, 900}, w \in {11, 90, 121, 200, 701, 1280} }

\* show_hint is offered while fewer than MaxHintTimers reverts are pending.
MaxHintTimers == 2

\* The image files the dialog can return: file name, height, width.
Images ==
    { [id |-> "a.png", h |-> 200, w |-> 200] }

\* The size of the image panel as the window manager reports it.
PanelSizes == { <<400, 300>> }

\* Pointer positions (event.x, event.y) of the clicks that are delivered: a
\* corner of the panel, a point of cell (0, 0), a point of cell (0, 1) and a
\* point of the last cell of every grid tier.
ClickPoints == { <<10, 10>>, <<60, 30>>, <<150, 30>>, <<340, 270>> }

\* The panel sizes of the coordinate-mapping specification: a wide panel
\* (letterbox left and right) and a tall one (letterbox above and below).
MapperPanelSizes == { <<400, 300>>, <<300, 400>> }

\* The clicks delivered in the coordinate-mapping specification: a corner of
\* the panel, the centre of displayed cell (1, 2) of the 4 x 4 grid in the
\* wide panel, and a point near the opposite corner.
MapperClicks == { <<10, 10>>, <<237, 112>>, <<340, 270>> }

\* Pointer positions at which the coordinate translation of on_click is
\* evaluated in every state: panel corners, both sides of each letterbox
\* edge, cell borders and cell interiors.
PointerSamples ==
    { <<x, y>> : x \in {0, 49, 50, 112, 125, 187, 237, 299, 300, 349, 350, 399},
                 y \in {0, 49, 50, 74, 75, 112, 150, 299, 300, 349, 350, 399} }

\* The panel sizes a resize of the window leads to.
DisplayPanelSizes == { <<400, 300>>, <<500, 300>> }

\* The clicks delivered in the display specification: a point of cell (0, 0)
\* and a point of the last cell of every grid tier in the 400 x 300 panel.
DisplayClicks == { <<60, 30>>, <<340, 270>> }

\* The difficulties chosen in the display specification.
DisplayDifficulties == { "medium", "hard" }

\* The widgets whose <Configure> events reach the binding of self.root.
ConfigureWidgets == { "root", "child" }

\* ------------------------------------------------------- pure operators

Min(a, b) == IF a <= b THEN a ELSE b
Max(a, b) == IF a >= b THEN a ELSE b

Len0(f) == Cardinality(DOMAIN f)

\* list(range(n))
Range(n) == [i \in 0 .. n - 1 |-> i]


\* random.Random(seed): a new generator, its state made from the seed
Random(seed) == (seed * 29 + 11) % RngModulus

\* one step of a generator
RngStep(rng) == (rng * 37 + 23) % RngModulus

\* Random.shuffle(x), for i in reversed(range(1, len(x))): j = randbelow(i + 1);
\* x[i], x[j] = x[j], x[i].  Gives the list and the generator after the draws.
RECURSIVE RngShuffle(_, _, _)
RngShuffle(x, i, rng) ==
    IF i < 1 THEN [order |-> x, rng |-> rng]
    ELSE RngShuffle([x EXCEPT ![i] = x[RngStep(rng) % (i + 1)],
                              ![RngStep(rng) % (i + 1)] = x[i]],
                    i - 1, RngStep(rng))

\* Random.shuffle(list(range(n))) on the generator rng, for the lengths of
\* the grids and every generator: [order, rng after the draws]
RngShuffled ==
    [n \in {2 * 3, 3 * 3, 4 * 4, 5 * 5}, rng \in 0 .. RngModulus - 1 |->
        RngShuffle(Range(n), n - 1, rng)]

\* A shuffle by a generator made from a fixed seed: one order for a length.
ShuffleOrdersSeeded(n) == { RngShuffled[n, Random(0)].order }

\* np.random.default_rng().shuffle(order) on order = list(range(n)): the
\* generator is seeded from the entropy of the system at every call
ShuffleOrders(n) ==
    { [i \in 0 .. n - 1 |-> IF i < ShuffleSpan THEN p[i] ELSE i] :
        p \in Permutations(0 .. ShuffleSpan - 1) }

\* pw, ph of _show_cv and shuffle
PanelW == Max(panel[1], MinPanel)
PanelH == Max(panel[2], MinPanel)

\* _show_cv, fit branch: scale = min(pw / img_w, ph / img_h);
\* (new_w, new_h, offset_x, offset_y)
FitGeometry(pw, ph, iw, ih) ==
    LET byW  == pw * ih <= ph * iw
        newW == IF byW THEN pw ELSE (iw * ph) \div ih
        newH == IF byW THEN (ih * pw) \div iw ELSE ph
    IN  <<newW, newH, (pw - newW) \div 2, (ph - newH) \div 2>>

\* _show_cv, fill branch: scale = max(pw / img_w, ph / img_h)
FillGeometry(pw, ph, iw, ih) ==
    LET byW  == pw * ih >= ph * iw
        newW == IF byW THEN pw ELSE (iw * ph) \div ih
        newH == IF byW THEN (ih * pw) \div iw ELSE ph
    IN  <<newW, newH, (pw - newW) \div 2, (ph - newH) \div 2>>

\* _show_cv(img_cv, force_fit): the geometry it stores for click detection;
\* fb is the value of self.fill_box at the call
show_cv(image, force_fit, fb) ==
    IF fb /\ ~force_fit
    THEN FillGeometry(PanelW, PanelH, image.w, image.h)
    ELSE FitGeometry(PanelW, PanelH, image.w, image.h)

\* shuffle, Fill Box branch: the shape (nh, nw) of the image scaled to cover
\* the panel, cropped to the panel and made grid-divisible
FillShape(pw, ph, h, w, gh, gw) ==
    LET byW     == pw * h >= ph * w
        scaledW == IF byW THEN pw ELSE (w * ph) \div h
        scaledH == IF byW THEN (h * pw) \div w ELSE ph
        cropX   == Max(0, (scaledW - pw) \div 2)
        cropY   == Max(0, (scaledH - ph) \div 2)
        cw      == Min(pw, scaledW - cropX)
        ch      == Min(ph, scaledH - cropY)
    IN  <<(ch \div gh) * gh, (cw \div gw) * gw>>

\* A fit branch that scales the image and does not round its sides down to
\* multiples of the grid.
FitShapeUnrounded(h, w, gh, gw) ==
    IF w <= FitMaxW /\ h <= FitMaxH THEN <<h, w>>
    ELSE IF FitMaxW * h <= FitMaxH * w THEN <<(h * FitMaxW) \div w, FitMaxW>>
    ELSE <<FitMaxH, (w * FitMaxH) \div h>>

\* shuffle, fit branch: scale = min(700 / w, 650 / h, 1.0), shape (nh, nw)
FitShape(h, w, gh, gw) ==
    LET sw == IF w <= FitMaxW /\ h <= FitMaxH THEN w
              ELSE IF FitMaxW * h <= FitMaxH * w THEN FitMaxW
              ELSE (w * FitMaxH) \div h
        sh == IF w <= FitMaxW /\ h <= FitMaxH THEN h
              ELSE IF FitMaxW * h <= FitMaxH * w THEN (h * FitMaxW) \div w
              ELSE FitMaxH
    IN  <<(sh \div gh) * gh, (sw \div gw) * gw>>

\* shuffle: the shape of self.img for the grid gs and Fill Box setting fb
WorkingShape(image, gs, fb) ==
    IF fb THEN FillShape(PanelW, PanelH, image.h, image.w, gs[1], gs[2])
    ELSE FitShape(image.h, image.w, gs[1], gs[2])

\* shuffle: the tiles cut from the working image: gh * gw copies in row-major
\* order, each th x tw.  The list is kept as the cut that made it; Tile gives
\* its k-th element.
Partition(image, gs) ==
    [src |-> image.id, gh |-> gs[1], gw |-> gs[2],
     th |-> image.h \div gs[1], tw |-> image.w \div gs[2]]

\* len(self.tiles)
NumTiles(ts) == ts.gh * ts.gw

\* self.tiles[k]: the copy of img[i*th:(i+1)*th, j*tw:(j+1)*tw], k = i*gw + j
Tile(ts, k) ==
    [src |-> ts.src, row |-> k \div ts.gw, col |-> k % ts.gw,
     h |-> ts.th, w |-> ts.tw]

\* _assemble raises IndexError at self.tile_order[idx] when the grid has more
\* positions than the permutation
AssembleRaises(order, gs) == gs[1] * gs[2] > Len0(order)

\* _assemble: the puzzle image, position p filled with tiles[tile_order[p]]
assemble(ts, order, gs) ==
    [id    |-> ts.src,
     h     |-> ts.th * gs[1],
     w     |-> ts.tw * gs[2],
     cells |-> [p \in 0 .. gs[1] * gs[2] - 1 |-> Tile(ts, order[p])]]

\* A translation that forgets where the image starts.
ClickXNoOffset(ex) == ex

\* The picture handed to _show_cv: what it is a rendering of (the loaded
\* image, the assembled puzzle, the solution shown as a hint) and its shape.
Plain(image) == [kind |-> "image", h |-> image.h, w |-> image.w]

\* img_panel before the first _show_cv (text "No image loaded")
NoPicture == "none"

\* _draw_grid(_assemble()): the puzzle with its grid lines
PuzzlePicture(ts, order, gs) ==
    [kind |-> "puzzle",
     h |-> assemble(ts, order, gs).h,
     w |-> assemble(ts, order, gs).w]

\* show_hint: the working image resized to the shape of the puzzle, with the
\* grid lines
HintPicture(ts, order, gs) ==
    [kind |-> "hint",
     h |-> assemble(ts, order, gs).h,
     w |-> assemble(ts, order, gs).w]

\* on_click: x, y of the click relative to the displayed image
ClickX(ex) == ex - displayed_offset_x
ClickY(ey) == ey - displayed_offset_y

\* A column rounded to the nearest cell border.
ClickColRounded(ex) ==
    (2 * ClickX(ex) * grid_size[2] + displayed_img_w) \div (2 * displayed_img_w)

\* on_click: col = int(x // (self._displayed_img_w / gw)), row likewise
ClickCol(ex) == (ClickX(ex) * grid_size[2]) \div displayed_img_w
ClickRow(ey) == (ClickY(ey) * grid_size[1]) \div displayed_img_h

\* on_click: the two early returns of the coordinate translation (a click
\* outside the displayed image, a cell outside the grid)
ClickMisses(ex, ey) ==
    \/ ClickX(ex) < 0 \/ ClickY(ey) < 0
    \/ ClickX(ex) >= displayed_img_w \/ ClickY(ey) >= displayed_img_h
    \/ ~(0 <= ClickCol(ex) /\ ClickCol(ex) < grid_size[2])
    \/ ~(0 <= ClickRow(ey) /\ ClickRow(ey) < grid_size[1])

\* on_click: idx = row * gw + col
ClickIndex(ex, ey) == ClickRow(ey) * grid_size[2] + ClickCol(ex)

\* A swap that, while a hint is on the panel, is applied to the arrangement
\* the panel shows (the solution) and not to the permutation.
SwapEntriesOfDisplayed(order, a, idx) ==
    IF shown = "hint"
    THEN [Range(Len0(order)) EXCEPT ![a] = idx, ![idx] = a]
    ELSE [order EXCEPT ![a] = order[idx], ![idx] = order[a]]

\* A swap that writes only one of the two entries.
SwapEntriesOneSided(order, a, idx) == [order EXCEPT ![a] = order[idx]]

\* A swap that exchanges the clicked position with the one after the pending
\* position.
SwapEntriesShifted(order, a, idx) ==
    [order EXCEPT ![(a + 1) % Len0(order)] = order[idx],
                  ![idx] = order[(a + 1) % Len0(order)]]

\* on_click: self.tile_order[a], self.tile_order[idx] =
\*               self.tile_order[idx], self.tile_order[a]
SwapEntries(order, a, idx) ==
    [order EXCEPT ![a] = order[idx], ![idx] = order[a]]

\* on_click: self.tile_order == list(range(len(self.tile_order)))
IsSolved(order) == order = Range(Len0(order))

\* shuffled = np.zeros_like(img): what the shuffled image holds outside the
\* gh * th rows and gw * tw columns that the tiles are written to ("none"
\* when the tiles cover the image)
Remainder(image, gs) ==
    IF image.h % gs[1] = 0 /\ image.w % gs[2] = 0 THEN "none" ELSE "zeros"

\* A shuffle_image_puzzle whose result is allocated for the tiles only
\* (np.zeros((gh * th, gw * tw, 3))).
shuffle_image_puzzle_cropped(image, gs, seed) ==
    LET n == gs[1] * gs[2]
        drawn == RngShuffled[n, Random(seed)]
    IN  [order |-> drawn.order,
         shuffled |-> [h |-> gs[1] * (image.h \div gs[1]),
                       w |-> gs[2] * (image.w \div gs[2]),
                       th |-> image.h \div gs[1], tw |-> image.w \div gs[2],
                       src |-> image.id, cells |-> drawn.order,
                       rest |-> "none"],
         module_rng |-> module_rng]

\* A shuffle_image_puzzle that scatters: tile k is written to position
\* order[k], so that position p holds the tile k with order[k] = p.
shuffle_image_puzzle_scatter(image, gs, seed) ==
    LET n == gs[1] * gs[2]
        drawn == RngShuffled[n, Random(seed)]
    IN  [order |-> drawn.order,
         shuffled |-> [h |-> image.h, w |-> image.w,
                       th |-> image.h \div gs[1], tw |-> image.w \div gs[2],
                       src |-> image.id,
                       cells |-> [p \in 0 .. n - 1 |->
                                    CHOOSE k \in 0 .. n - 1 : drawn.order[k] = p],
                       rest |-> Remainder(image, gs)],
         module_rng |-> module_rng]

\* A shuffle_image_puzzle that draws from the generator shared by the module
\* (random.shuffle(order)) and not from one of its own.
shuffle_image_puzzle_shared(image, gs, seed) ==
    LET n == gs[1] * gs[2]
        drawn == RngShuffled[n, module_rng]
    IN  [order |-> drawn.order,
         shuffled |-> [h |-> image.h, w |-> image.w,
                       th |-> image.h \div gs[1], tw |-> image.w \div gs[2],
                       src |-> image.id, cells |-> drawn.order,
                       rest |-> Remainder(image, gs)],
         module_rng |-> drawn.rng]

\* shuffle_image_puzzle(img, grid_size, seed): the order, the shuffled image
\* (np.zeros_like(img) with tile order[p] at position p) and the generator
\* of the module after the call, which the function does not touch
shuffle_image_puzzle(image, gs, seed) ==
    LET n == gs[1] * gs[2]
        drawn == RngShuffled[n, Random(seed)]
    IN  [order |-> drawn.order,
         shuffled |-> [h |-> image.h, w |-> image.w,
                       th |-> image.h \div gs[1], tw |-> image.w \div gs[2],
                       src |-> image.id, cells |-> drawn.order,
                       rest |-> Remainder(image, gs)],
         module_rng |-> module_rng]

\* An overlay whose k-th lines lie at the k-th part of the height and of the
\* width, rounded down.
overlay_grid_and_numbers_proportional(image, gs, order) ==
    [h |-> image.h, w |-> image.w, th |-> image.th, tw |-> image.tw,
     src |-> image.src, cells |-> image.cells, rest |-> image.rest,
     lines |-> [rows |-> [i \in 1 .. gs[1] - 1 |-> (i * image.h) \div gs[1]],
                cols |-> [j \in 1 .. gs[2] - 1 |-> (j * image.w) \div gs[2]]],
     numbers |-> order]

\* overlay_grid_and_numbers(img, grid_size, tile_order): a copy of img with
\* the grid lines drawn at the multiples of th and tw and, in the middle of
\* every position, the number tile_order has there
overlay_grid_and_numbers(image, gs, order) ==
    [h |-> image.h, w |-> image.w, th |-> image.th, tw |-> image.tw,
     src |-> image.src, cells |-> image.cells, rest |-> image.rest,
     lines |-> [rows |-> [i \in 1 .. gs[1] - 1 |-> i * (image.h \div gs[1])],
                cols |-> [j \in 1 .. gs[2] - 1 |-> j * (image.w \div gs[2])]],
     numbers |-> order]

\* A file name is the pair of its root and its extension, the split that
\* os.path.splitext makes.
splitext(fname) == fname

\* fname.lower() on the extensions of the model
Lower(ext) ==
    CASE ext = ".PNG" -> ".png"
      [] OTHER -> ext

\* fname.lower().endswith((".jpg", ".jpeg", ".png", ".bmp"))
Supported(fname) == Lower(fname[2]) \in {".jpg", ".jpeg", ".png", ".bmp"}

\* f"shuffled_{fname}"
ShuffledName(fname) == "shuffled_" \o fname[1] \o fname[2]

\* f"solution_map_{os.path.splitext(fname)[0]}.json"
SolutionName(fname) == "solution_map_" \o splitext(fname)[1] \o ".json"

\* The characters of a file name as a number, for the hash of the model.
NameCode(fname) ==
    CASE fname = <<"a", ".png">> -> 3
      [] fname = <<"a", ".jpg">> -> 5
      [] fname = <<"b", ".PNG">> -> 6
      [] OTHER -> 12

\* hash(fname): the hash of a str is keyed by the secret the interpreter
\* draws when it starts (PYTHONHASHSEED unset); SipHash is modelled by a
\* linear mix of the characters and the key, signed like Py_hash_t
hash(fname, secret) ==
    ((NameCode(fname) * (2 * secret + 1) + 5 * secret) % (2 * HashModulus))
        - HashModulus

\* seed = hash(fname) & 0xFFFFFFFF: the low bits, never negative
SeedOf(fname, secret) == hash(fname, secret) % HashModulus

\* cv2.imread(os.path.join(input_dir, fname)) on a file of the directory
imread_file(file) ==
    IF file.decodes
    THEN [id |-> file.name, h |-> file.h, w |-> file.w]
    ELSE None

\* open(path, "w") / cv2.imwrite(path, ...): the file is created or replaced
WriteFile(dir, name, content) ==
    [n \in DOMAIN dir \cup {name} |-> IF n = name THEN content ELSE dir[n]]

\* process_all_images, one turn of the loop over os.listdir(input_dir)
process_file(file, gs, secret, out) ==
    IF ~Supported(file.name) THEN out
    ELSE IF imread_file(file) = None THEN out
    ELSE LET seed == SeedOf(file.name, secret)
             res  == shuffle_image_puzzle(imread_file(file), gs, seed)
             vis  == overlay_grid_and_numbers(res.shuffled, gs, res.order)
         IN  WriteFile(WriteFile(out, ShuffledName(file.name), vis),
                       SolutionName(file.name), [tile_order |-> res.order])

\* process_all_images: the loop over the listing, from its k-th file on
RECURSIVE process_listing(_, _, _, _, _)
process_listing(listing, k, gs, secret, out) ==
    IF k > Len(listing) THEN out
    ELSE process_listing(listing, k + 1, gs, secret,
                         process_file(listing[k], gs, secret, out))

\* os.listdir(input_dir): the files of the directory in arbitrary order
listdir(dir) ==
    { l \in [1 .. Cardinality(dir) -> dir] : \A f \in dir : \E k \in DOMAIN l : l[k] = f }

\* The calls a caller can make: a grid and a seed.
BatchKeys == BatchGrids \X (0 .. MaxSeed)

\* What a caller holds for a grid and seed it has not called with.
NoResult == [order |-> NoOrder, images |-> {}]

\* ---------------------------------------------------------------- state

\* No call of shuffle_image_puzzle has been made; the specifications of the
\* window, which never draws from the generator of the module, start it at 0.
BatchIdle ==
    /\ batch_results = [k \in BatchKeys |-> NoResult]
    /\ module_rng = 0
    /\ returned = None
    /\ hash_secret = 0
    /\ input_dir = {}
    /\ output_dir = <<>>

\* PuzzleShuffleGUI.__init__
Init ==
    /\ orig_img = None
    /\ img = None
    /\ grid_size = <<3, 3>>
    /\ difficulty = "medium"
    /\ fill_box = FALSE
    /\ tile_order = NoOrder
    /\ selected = <<>>
    /\ tiles = None
    /\ displayed_img_w = 0
    /\ displayed_img_h = 0
    /\ displayed_offset_x = 0
    /\ displayed_offset_y = 0
    /\ panel \in PanelSizes
    /\ status = <<"Select an image and difficulty, then click Shuffle.">>
    /\ save_btn = "disabled"
    /\ shown = NoPicture
    /\ resize_job = NoJob
    /\ resize_timers = {}
    /\ hint_timers = 0
    /\ BatchIdle

\* the four assignments of _show_cv to the click-detection fields
StoreGeometry(g) ==
    /\ displayed_img_w' = g[1]
    /\ displayed_img_h' = g[2]
    /\ displayed_offset_x' = g[3]
    /\ displayed_offset_y' = g[4]

\* _show_cv(picture, force_fit) with Fill Box setting fb: the picture is put
\* on the panel and its geometry stored
display(picture, force_fit, fb) ==
    /\ StoreGeometry(show_cv(picture, force_fit, fb))
    /\ shown' = picture.kind

\* A redraw of the puzzle that follows the Fill Box setting.
assemble_and_show_by_fill_box(ts, order, gs, fb) ==
    display(PuzzlePicture(ts, order, gs), FALSE, fb)

\* _assemble_and_show past _assemble
assemble_and_show(ts, order, gs, fb) ==
    display(PuzzlePicture(ts, order, gs), TRUE, fb)

\* cv2.imread(path): None for a file that cannot be decoded
imread(path) ==
    IF \E i \in Images : i.id = path
    THEN CHOOSE i \in Images : i.id = path
    ELSE None

\* The paths the file dialog returns: "" (cancelled), a file that is no
\* image, or an image file.
DialogPaths == {"", "broken.png"} \cup {i.id : i \in Images}

\* A load that stores the image and leaves the old tiles and order in place.
open_image_store_keeps_puzzle(image) ==
    /\ orig_img' = image
    /\ img' = image
    /\ save_btn' = "disabled"
    /\ display(Plain(image), FALSE, fill_box)
    /\ UNCHANGED <<tiles, tile_order>>

\* open_image after a successful decode: the image is stored, the puzzle of
\* the previous image is dropped, the image is displayed
open_image_store(image) ==
    /\ orig_img' = image
    /\ img' = image
    /\ tiles' = None
    /\ tile_order' = NoOrder
    /\ save_btn' = "disabled"
    /\ display(Plain(image), FALSE, fill_box)

\* An open_image that drops the puzzle of the previous image before it
\* decodes the file.
open_image_drops_first(path, copied) ==
    IF path = "" THEN UNCHANGED vars
    ELSE IF imread(path) = None
    THEN /\ status' = <<"Failed to load image.">>
         /\ tiles' = None
         /\ tile_order' = NoOrder
         /\ save_btn' = "disabled"
         /\ UNCHANGED <<orig_img, img, grid_size, difficulty, selected,
                        display_vars, fill_box, panel, timer_vars, batch_vars>>
    ELSE /\ open_image_store(imread(path))
         /\ status' = IF copied THEN <<"Loaded", path>> ELSE <<"Could not copy">>
         /\ UNCHANGED <<grid_size, difficulty, selected, fill_box, panel,
                        timer_vars, batch_vars>>

\* open_image; copied: whether shutil.copy into input/ succeeded
open_image(path, copied) ==
    IF path = "" THEN UNCHANGED vars
    ELSE IF imread(path) = None
    THEN /\ status' = <<"Failed to load image.">>
         /\ UNCHANGED <<puzzle_vars, display_vars, fill_box, panel, save_btn,
                        timer_vars, batch_vars>>
    ELSE /\ open_image_store(imread(path))
         /\ status' = IF copied THEN <<"Loaded", path>> ELSE <<"Could not copy">>
         /\ UNCHANGED <<grid_size, difficulty, selected, fill_box, panel,
                        timer_vars, batch_vars>>

\* set_difficulty, called by the radio button that has set self.difficulty
set_difficulty(d) ==
    /\ difficulty' = d
    /\ grid_size' = DIFFICULTY_GRID[d]
    /\ status' = <<"Difficulty", d>>
    /\ UNCHANGED <<orig_img, img, tile_order, selected, tiles, display_vars,
                   fill_box, panel, save_btn, timer_vars, batch_vars>>

\* shuffle past its guard (an image is loaded), with Fill Box setting fb:
\* set_difficulty, the working image, the tiles, a fresh order, the display
shuffle_body(silent, fb) ==
    LET gs    == DIFFICULTY_GRID[difficulty]
        shape == WorkingShape(orig_img, gs, fb)
        work  == [id |-> orig_img.id, h |-> shape[1], w |-> shape[2]]
        ts    == Partition(work, gs)
    IN  /\ grid_size' = gs
        /\ UNCHANGED <<orig_img, difficulty, selected, panel, timer_vars, batch_vars>>
        /\ IF shape[1] = 0 \/ shape[2] = 0
           THEN \* cv2.resize raises on an empty size
                /\ status' = <<"Difficulty", difficulty>>
                /\ UNCHANGED <<img, tiles, tile_order, display_vars, save_btn>>
           ELSE \E order \in ShuffleOrders(NumTiles(ts)) :
                /\ img' = work
                /\ tiles' = ts
                /\ tile_order' = order
                /\ assemble_and_show(ts, order, gs, fb)
                /\ save_btn' = "normal"
                /\ status' = IF silent THEN <<"Difficulty", difficulty>>
                             ELSE <<"Shuffled! Click tiles to swap.">>

\* A shuffle that calls set_difficulty before it looks for the image.
shuffle_sets_difficulty_first ==
    IF orig_img = None
    THEN /\ grid_size' = DIFFICULTY_GRID[difficulty]
         /\ status' = <<"Load an image first.">>
         /\ UNCHANGED <<orig_img, img, difficulty, tile_order, selected, tiles,
                        display_vars, fill_box, panel, save_btn, timer_vars, batch_vars>>
    ELSE /\ shuffle_body(FALSE, fill_box)
         /\ UNCHANGED fill_box

\* shuffle (the Shuffle button: silent = False)
shuffle ==
    IF orig_img = None
    THEN /\ status' = <<"Load an image first.">>
         /\ UNCHANGED <<puzzle_vars, display_vars, fill_box, panel, save_btn,
                        timer_vars, batch_vars>>
    ELSE /\ shuffle_body(FALSE, fill_box)
         /\ UNCHANGED fill_box

\* A reset that takes the length of the order from the grid.
reset_from_grid ==
    IF tiles = None THEN UNCHANGED vars
    ELSE /\ tile_order' = Range(grid_size[1] * grid_size[2])
         /\ UNCHANGED <<orig_img, img, grid_size, difficulty, selected, tiles,
                        fill_box, panel, timer_vars, batch_vars>>
         /\ IF AssembleRaises(Range(grid_size[1] * grid_size[2]), grid_size)
            THEN UNCHANGED <<display_vars, status, save_btn>>
            ELSE /\ assemble_and_show(tiles, Range(grid_size[1] * grid_size[2]),
                                      grid_size, fill_box)
                 /\ status' = <<"Reset to original.">>
                 /\ save_btn' = "disabled"

\* reset
reset ==
    IF tiles = None THEN UNCHANGED vars
    ELSE /\ tile_order' = Range(NumTiles(tiles))
         /\ UNCHANGED <<orig_img, img, grid_size, difficulty, selected, tiles,
                        fill_box, panel, timer_vars, batch_vars>>
         /\ IF AssembleRaises(Range(NumTiles(tiles)), grid_size)
            THEN UNCHANGED <<display_vars, status, save_btn>>
            ELSE /\ assemble_and_show(tiles, Range(NumTiles(tiles)), grid_size,
                                      fill_box)
                 /\ status' = <<"Reset to original.">>
                 /\ save_btn' = "disabled"

\* on_click, second click on another position: pop, swap, redraw, report
click_swap(a, idx) ==
    /\ selected' = SubSeq(selected, 1, Len(selected) - 1)
    /\ UNCHANGED <<orig_img, img, grid_size, difficulty, tiles, fill_box, panel,
                   timer_vars, batch_vars>>
    /\ IF a \notin DOMAIN tile_order \/ idx \notin DOMAIN tile_order
       THEN \* IndexError while the right-hand side is evaluated
            UNCHANGED <<tile_order, display_vars, status, save_btn>>
       ELSE /\ tile_order' = SwapEntries(tile_order, a, idx)
            /\ IF AssembleRaises(SwapEntries(tile_order, a, idx), grid_size)
               THEN UNCHANGED <<display_vars, status, save_btn>>
               ELSE /\ assemble_and_show(tiles,
                                         SwapEntries(tile_order, a, idx),
                                         grid_size, fill_box)
                    /\ IF IsSolved(SwapEntries(tile_order, a, idx))
                       THEN /\ status' = <<"Solved! Congratulations!">>
                            /\ save_btn' = "normal"
                       ELSE /\ status' = <<"Swapped tiles", a + 1, idx + 1>>
                            /\ UNCHANGED save_btn

\* on_click, no selection pending: self.selected = [idx]
click_select(idx) ==
    /\ selected' = <<idx>>
    /\ status' = <<"Selected tile", idx + 1>>
    /\ UNCHANGED <<orig_img, img, grid_size, difficulty, tile_order, tiles,
                   display_vars, fill_box, panel, save_btn, timer_vars, batch_vars>>

\* A second click on the pending position that arms the selection again.
click_same_rearms(idx) == click_select(idx)

\* on_click, second click on the pending position: a = self.selected.pop()
\* and nothing else
click_same(idx) ==
    /\ selected' = SubSeq(selected, 1, Len(selected) - 1)
    /\ UNCHANGED <<orig_img, img, grid_size, difficulty, tile_order, tiles,
                   display_vars, fill_box, panel, status, save_btn, timer_vars, batch_vars>>

\* A guard that asks for a loaded image, not for the tiles.
NoImage == orig_img = None

\* on_click: the guard of its first line
NoPuzzle == tiles = None \/ tile_order = NoOrder

\* on_click(event) with event.x = ex, event.y = ey
on_click(ex, ey) ==
    IF NoPuzzle THEN UNCHANGED vars
    ELSE IF ClickMisses(ex, ey) THEN UNCHANGED vars
    ELSE IF selected = <<>> THEN click_select(ClickIndex(ex, ey))
    ELSE IF selected[Len(selected)] = ClickIndex(ex, ey)
    THEN click_same(ClickIndex(ex, ey))
    ELSE click_swap(selected[Len(selected)], ClickIndex(ex, ey))

\* A toggle of Fill Box that only draws the puzzle again as it is arranged.
refresh_display_only_redraws ==
    /\ fill_box' = ~fill_box
    /\ IF tiles # None /\ tile_order # NoOrder
       THEN /\ IF AssembleRaises(tile_order, grid_size)
               THEN UNCHANGED display_vars
               ELSE assemble_and_show(tiles, tile_order, grid_size, ~fill_box)
            /\ UNCHANGED <<puzzle_vars, panel, status, save_btn, timer_vars, batch_vars>>
       ELSE IF orig_img # None
       THEN /\ display(Plain(orig_img), FALSE, ~fill_box)
            /\ UNCHANGED <<puzzle_vars, panel, status, save_btn, timer_vars, batch_vars>>
       ELSE UNCHANGED <<puzzle_vars, display_vars, panel, status, save_btn,
                        timer_vars, batch_vars>>

\* _refresh_display, called by the Fill Box checkbox that has toggled
\* self.fill_box
refresh_display ==
    /\ fill_box' = ~fill_box
    /\ IF tiles # None /\ tile_order # NoOrder
       THEN shuffle_body(TRUE, ~fill_box)
       ELSE IF orig_img # None
       THEN /\ display(Plain(orig_img), FALSE, ~fill_box)
            /\ UNCHANGED <<puzzle_vars, panel, status, save_btn, timer_vars, batch_vars>>
       ELSE UNCHANGED <<puzzle_vars, display_vars, panel, status, save_btn,
                        timer_vars, batch_vars>>

Next ==
    \/ \E path \in DialogPaths, copied \in BOOLEAN : open_image(path, copied)
    \/ \E d \in Difficulties : set_difficulty(d)
    \/ shuffle
    \/ reset
    \/ \E c \in ClickPoints : on_click(c[1], c[2])
    \/ refresh_display

Spec == Init /\ [][Next]_vars

\* ------------------------------------------- resize, hint, save callbacks

\* root.after(100, ...): the identifier of the new callback, one that no
\* callback pending in the queue has (the least one)
FreshJob(pending) ==
    CHOOSE k \in 1 .. Cardinality(pending) + 1 :
        /\ k \notin pending
        /\ \A j \in 1 .. k - 1 : j \in pending

\* A notification that schedules a re-render and leaves the one scheduled
\* before in the queue.
on_configure_keeps_pending(widget, size) ==
    IF widget # "root" THEN UNCHANGED vars
    ELSE /\ panel' = size
         /\ resize_timers' = resize_timers \cup {FreshJob(resize_timers)}
         /\ resize_job' = FreshJob(resize_timers)
         /\ UNCHANGED <<puzzle_vars, display_vars, fill_box, status, save_btn,
                        hint_timers, batch_vars>>

\* _on_configure(event), event.widget = widget; the window has the panel at
\* size when the event of the root is delivered
on_configure(widget, size) ==
    IF widget # "root" THEN UNCHANGED vars
    ELSE /\ panel' = size
         /\ resize_timers' = (resize_timers \ {resize_job})
                                \cup {FreshJob(resize_timers \ {resize_job})}
         /\ resize_job' = FreshJob(resize_timers \ {resize_job})
         /\ UNCHANGED <<puzzle_vars, display_vars, fill_box, status, save_btn,
                        hint_timers, batch_vars>>

\* A re-render that drops the pending selection.
resize_update_drops_selection(job) ==
    /\ job \in resize_timers
    /\ resize_timers' = resize_timers \ {job}
    /\ resize_job' = NoJob
    /\ selected' = <<>>
    /\ UNCHANGED <<orig_img, img, grid_size, difficulty, tile_order, tiles,
                   fill_box, panel, status, save_btn, hint_timers, batch_vars>>
    /\ IF tiles # None /\ tile_order # NoOrder
       THEN IF AssembleRaises(tile_order, grid_size)
            THEN UNCHANGED display_vars
            ELSE assemble_and_show(tiles, tile_order, grid_size, fill_box)
       ELSE IF img # None
       THEN display(Plain(img), FALSE, fill_box)
       ELSE UNCHANGED display_vars

\* _resize_update, the callback with identifier job: the re-render, and
\* self._resize_job = None in the finally clause
resize_update(job) ==
    /\ job \in resize_timers
    /\ resize_timers' = resize_timers \ {job}
    /\ resize_job' = NoJob
    /\ UNCHANGED <<puzzle_vars, fill_box, panel, status, save_btn, hint_timers,
                   batch_vars>>
    /\ IF tiles # None /\ tile_order # NoOrder
       THEN IF AssembleRaises(tile_order, grid_size)
            THEN UNCHANGED display_vars
            ELSE assemble_and_show(tiles, tile_order, grid_size, fill_box)
       ELSE IF img # None
       THEN display(Plain(img), FALSE, fill_box)
       ELSE UNCHANGED display_vars

\* show_hint (the Show Hint button)
show_hint ==
    /\ hint_timers < MaxHintTimers
    /\ IF orig_img = None \/ tiles = None \/ tile_order = NoOrder
       THEN UNCHANGED vars
       ELSE IF AssembleRaises(tile_order, grid_size)
       THEN \* IndexError in _assemble
            UNCHANGED vars
       ELSE /\ display(HintPicture(tiles, tile_order, grid_size), TRUE, fill_box)
            /\ hint_timers' = hint_timers + 1
            /\ UNCHANGED <<puzzle_vars, fill_box, panel, status, save_btn,
                           resize_job, resize_timers, batch_vars>>

\* the callback of show_hint, 3000 ms later: _assemble_and_show
hint_revert ==
    /\ hint_timers > 0
    /\ hint_timers' = hint_timers - 1
    /\ UNCHANGED <<puzzle_vars, fill_box, panel, status, save_btn, resize_job,
                   resize_timers, batch_vars>>
    /\ IF tiles = None \/ tile_order = NoOrder THEN UNCHANGED display_vars
       ELSE IF AssembleRaises(tile_order, grid_size)
       THEN UNCHANGED display_vars
       ELSE assemble_and_show(tiles, tile_order, grid_size, fill_box)

\* _draw_grid(img): a copy of img with the gw - 1 vertical and gh - 1
\* horizontal lines at the multiples of tw = W // gw and th = H // gh
draw_grid(picture, gs) ==
    [image |-> picture,
     lines |-> [rows |-> [k \in 1 .. gs[1] - 1 |-> k * (picture.h \div gs[1])],
                cols |-> [k \in 1 .. gs[2] - 1 |-> k * (picture.w \div gs[2])]]]

\* A solution reference made of the puzzle as it is arranged, every cell
\* labelled with the number of the tile that lies there.
solution_reference_of_puzzle(image, puzzle, order, gs) ==
    [image  |-> puzzle,
     lines  |-> draw_grid(puzzle, gs).lines,
     labels |-> [idx \in 0 .. gs[1] * gs[2] - 1 |->
                   [row |-> idx \div gs[2], col |-> idx % gs[2],
                    txt |-> order[idx] + 1]]]

\* save_output: sol, the working image self.img resized to the shape of the
\* puzzle, with the grid lines and, in cell divmod(idx, gw), the text idx + 1
solution_reference(image, puzzle, order, gs) ==
    [image  |-> [id |-> image.id, h |-> puzzle.h, w |-> puzzle.w],
     lines  |-> draw_grid([id |-> image.id, h |-> puzzle.h, w |-> puzzle.w],
                          gs).lines,
     labels |-> [idx \in 0 .. gs[1] * gs[2] - 1 |->
                   [row |-> idx \div gs[2], col |-> idx % gs[2],
                    txt |-> idx + 1]]]

\* save_output._unique, the while loop from i on: the first of the names
\* n_i e, n_(i+1) e, ... that is not in the directory
RECURSIVE unique_from(_, _, _)
unique_from(names, b, i) ==
    IF b[1] \o "_" \o ToString(i) \o b[2] \notin names
    THEN b[1] \o "_" \o ToString(i) \o b[2]
    ELSE unique_from(names, b, i + 1)

\* A search for a name that takes the plain name without looking.
unique_plain(names, b) == b[1] \o b[2]

\* save_output._unique(d, b), b = n + e as os.path.splitext splits it, names
\* the files of the directory d
unique(names, b) ==
    IF b[1] \o b[2] \notin names THEN b[1] \o b[2]
    ELSE unique_from(names, b, 1)

\* An export that leaves the puzzle solved: it writes the files and installs
\* the order of the solution reference.
save_output_installs_solution(name) ==
    /\ save_btn = "normal"
    /\ Cardinality(DOMAIN output_dir) < MaxOutputFiles
    /\ tile_order # NoOrder /\ tiles # None
    /\ ~AssembleRaises(tile_order, grid_size)
    /\ output_dir' = WriteFile(output_dir,
                               unique(DOMAIN output_dir, <<name \o "_puzzle", ".png">>),
                               draw_grid(assemble(tiles, tile_order, grid_size),
                                         grid_size))
    /\ tile_order' = Range(Len0(tile_order))
    /\ selected' = <<>>
    /\ status' = <<"Saved puzzle + solution to output/">>
    /\ UNCHANGED <<orig_img, img, grid_size, difficulty, tiles, display_vars,
                   fill_box, panel, save_btn, timer_vars, batch_results,
                   module_rng, returned, hash_secret, input_dir>>

\* save_output (the Save Output button, which works while it is enabled);
\* name is the root of os.path.basename(self.input_path), the name under
\* which open_image last copied a file into input/, or "puzzle"
save_output(name) ==
    /\ save_btn = "normal"
    /\ Cardinality(DOMAIN output_dir) < MaxOutputFiles
    /\ IF tile_order = NoOrder
       THEN /\ status' = <<"Nothing to save.">>
            /\ UNCHANGED <<puzzle_vars, display_vars, fill_box, panel, save_btn,
                           timer_vars, batch_vars>>
       ELSE IF tiles = None THEN UNCHANGED vars
       ELSE IF AssembleRaises(tile_order, grid_size)
       THEN \* IndexError in _assemble
            UNCHANGED vars
       ELSE LET puzzle   == assemble(tiles, tile_order, grid_size)
                puz_path == unique(DOMAIN output_dir, <<name \o "_puzzle", ".png">>)
                sol_path == unique(DOMAIN output_dir, <<name \o "_solution", ".png">>)
            IN  /\ output_dir' =
                      WriteFile(WriteFile(output_dir, puz_path,
                                          draw_grid(puzzle, grid_size)),
                                sol_path,
                                solution_reference(img, puzzle, tile_order,
                                                   grid_size))
                /\ status' = <<"Saved puzzle + solution to output/">>
                /\ UNCHANGED <<puzzle_vars, display_vars, fill_box, panel,
                               save_btn, timer_vars, batch_results, module_rng,
                               returned, hash_secret, input_dir>>

\* The display specification: the puzzle with the resize notifications, the
\* hint and the callbacks they schedule.
NextDisplay ==
    \/ \E i \in Images : open_image(i.id, TRUE)
    \/ \E d \in DisplayDifficulties : set_difficulty(d)
    \/ shuffle
    \/ reset
    \/ \E c \in DisplayClicks : on_click(c[1], c[2])
    \/ \E widget \in ConfigureWidgets, size \in DisplayPanelSizes :
            on_configure(widget, size)
    \/ \E job \in resize_timers : resize_update(job)
    \/ show_hint
    \/ hint_revert

SpecDisplay == Init /\ [][NextDisplay]_vars

\* Tk runs a due callback when the main loop is idle: a pending callback is
\* not postponed for ever.
SpecDisplayFair ==
    /\ SpecDisplay
    /\ WF_vars(hint_revert)
    /\ WF_vars(\E job \in resize_timers : resize_update(job))

\* The coordinate-mapping specification: the program started in a wide or
\* in a tall panel, a difficulty chosen once (__init__, then set_difficulty);
\* images are loaded, shuffled and clicked in fit and in Fill Box mode.
InitMapper ==
    /\ orig_img = None
    /\ img = None
    /\ difficulty \in Difficulties
    /\ grid_size = DIFFICULTY_GRID[difficulty]
    /\ fill_box = FALSE
    /\ tile_order = NoOrder
    /\ selected = <<>>
    /\ tiles = None
    /\ displayed_img_w = 0
    /\ displayed_img_h = 0
    /\ displayed_offset_x = 0
    /\ displayed_offset_y = 0
    /\ panel \in MapperPanelSizes
    /\ status = <<"Difficulty", difficulty>>
    /\ save_btn = "disabled"
    /\ shown = NoPicture
    /\ resize_job = NoJob
    /\ resize_timers = {}
    /\ hint_timers = 0
    /\ BatchIdle

NextMapper ==
    \/ \E i \in Images : open_image(i.id, TRUE)
    \/ shuffle
    \/ \E c \in MapperClicks : on_click(c[1], c[2])
    \/ refresh_display

SpecMapper == InitMapper /\ [][NextMapper]_vars

\* ------------------------------------------------------------ the view

\* The view specification: the display specification with the Fill Box
\* checkbox.
NextView ==
    \/ \E i \in Images : open_image(i.id, TRUE)
    \/ shuffle
    \/ \E c \in DisplayClicks : on_click(c[1], c[2])
    \/ refresh_display
    \/ \E widget \in ConfigureWidgets, size \in DisplayPanelSizes :
            on_configure(widget, size)
    \/ \E job \in resize_timers : resize_update(job)
    \/ show_hint
    \/ hint_revert

SpecView == Init /\ [][NextView]_vars

\* ------------------------------------------------------------- solving

\* Orders that order = list(range(n)); rng.shuffle(order) can install: every
\* arrangement of the first SolveSpan positions, the rotation of all n
\* positions (one cycle), the reversal, and the rotation of all but the first.
InstallableOrders(n) ==
    { [i \in 0 .. n - 1 |-> IF i < SolveSpan THEN p[i] ELSE i] :
        p \in Permutations(0 .. SolveSpan - 1) }
    \cup { [i \in 0 .. n - 1 |-> (i + 1) % n],
           [i \in 0 .. n - 1 |-> n - 1 - i],
           [i \in 0 .. n - 1 |-> IF i = 0 THEN 0 ELSE 1 + (i % (n - 1))] }

\* The window after open_image and shuffle: an image is loaded, the puzzle of
\* the chosen difficulty is on the panel in one of the installable orders.
InitSolve ==
    \E i \in Images, d \in Difficulties :
      LET gs    == DIFFICULTY_GRID[d]
          shape == FitShape(i.h, i.w, gs[1], gs[2])
          work  == [id |-> i.id, h |-> shape[1], w |-> shape[2]]
          ts    == Partition(work, gs)
      IN  /\ orig_img = i
          /\ img = work
          /\ grid_size = gs
          /\ difficulty = d
          /\ fill_box = FALSE
          /\ tiles = ts
          /\ tile_order \in InstallableOrders(NumTiles(ts))
          /\ selected = <<>>
          /\ panel \in PanelSizes
          /\ displayed_img_w = FitGeometry(PanelW, PanelH, work.w, work.h)[1]
          /\ displayed_img_h = FitGeometry(PanelW, PanelH, work.w, work.h)[2]
          /\ displayed_offset_x = FitGeometry(PanelW, PanelH, work.w, work.h)[3]
          /\ displayed_offset_y = FitGeometry(PanelW, PanelH, work.w, work.h)[4]
          /\ shown = "puzzle"
          /\ status = <<"Shuffled! Click tiles to swap.">>
          /\ save_btn = "normal"
          /\ resize_job = NoJob
          /\ resize_timers = {}
          /\ hint_timers = 0
          /\ BatchIdle

\* The position the player clicks first: the first position whose tile is
\* not its own; in a puzzle that was installed in order, position 0.
FirstPick ==
    IF IsSolved(tile_order) THEN 0
    ELSE CHOOSE p \in DOMAIN tile_order :
            /\ tile_order[p] # p
            /\ \A q \in DOMAIN tile_order : q < p => tile_order[q] = q

\* The position the player clicks second, with position p pending: the one
\* that holds tile p; in a puzzle that is in order, the next position.
SecondPick(p) ==
    IF IsSolved(tile_order) THEN (p + 1) % Len0(tile_order)
    ELSE CHOOSE q \in DOMAIN tile_order : tile_order[q] = p

\* The position of the player's next click
NextPick ==
    IF selected = <<>> THEN FirstPick ELSE SecondPick(selected[Len(selected)])

\* The pointer position of the player's next click: the middle of the
\* displayed cell of NextPick
NextClick ==
    <<displayed_offset_x
        + ((2 * (NextPick % grid_size[2]) + 1) * displayed_img_w)
              \div (2 * grid_size[2]),
      displayed_offset_y
        + ((2 * (NextPick \div grid_size[2]) + 1) * displayed_img_h)
              \div (2 * grid_size[1])>>

\* The player's click while Solved is not reported: on_click at NextClick
solve_click ==
    /\ tiles # None /\ tile_order # NoOrder
    /\ status # <<"Solved! Congratulations!">>
    /\ on_click(NextClick[1], NextClick[2])

NextSolve == solve_click

\* The player goes on clicking until Solved is reported.
SpecSolve == InitSolve /\ [][NextSolve]_vars /\ WF_vars(NextSolve)

\* -------------------------------------------------------------- export

\* The window after the difficulty is set, with OUTPUT_DIR as earlier
\* sessions left it.
InitExport ==
    /\ orig_img = None
    /\ img = None
    /\ difficulty \in Difficulties
    /\ grid_size = DIFFICULTY_GRID[difficulty]
    /\ fill_box = FALSE
    /\ tile_order = NoOrder
    /\ selected = <<>>
    /\ tiles = None
    /\ displayed_img_w = 0
    /\ displayed_img_h = 0
    /\ displayed_offset_x = 0
    /\ displayed_offset_y = 0
    /\ panel \in PanelSizes
    /\ status = <<"Difficulty", difficulty>>
    /\ save_btn = "disabled"
    /\ shown = NoPicture
    /\ resize_job = NoJob
    /\ resize_timers = {}
    /\ hint_timers = 0
    /\ batch_results = [k \in BatchKeys |-> NoResult]
    /\ module_rng = 0
    /\ returned = None
    /\ hash_secret = 0
    /\ input_dir = {}
    /\ \E old \in SUBSET OldFiles : output_dir = [n \in old |-> [old |-> TRUE]]

NextExport ==
    \/ \E i \in Images : open_image(i.id, TRUE)
    \/ shuffle
    \/ reset
    \/ \E c \in DisplayClicks : on_click(c[1], c[2])
    \/ \E name \in SaveNames : save_output(name)

SpecExport == InitExport /\ [][NextExport]_vars

\* ------------------------------------------------- cut and reassembly

\* The window after __init__, a choice of difficulty and open_image on one
\* of CutImages.
InitCut ==
    /\ orig_img \in CutImages
    /\ img = orig_img
    /\ difficulty \in Difficulties
    /\ grid_size = DIFFICULTY_GRID[difficulty]
    /\ fill_box = FALSE
    /\ tile_order = NoOrder
    /\ selected = <<>>
    /\ tiles = None
    /\ panel \in PanelSizes
    /\ displayed_img_w = show_cv(orig_img, FALSE, FALSE)[1]
    /\ displayed_img_h = show_cv(orig_img, FALSE, FALSE)[2]
    /\ displayed_offset_x = show_cv(orig_img, FALSE, FALSE)[3]
    /\ displayed_offset_y = show_cv(orig_img, FALSE, FALSE)[4]
    /\ status = <<"Loaded", orig_img.id>>
    /\ save_btn = "disabled"
    /\ shown = "image"
    /\ resize_job = NoJob
    /\ resize_timers = {}
    /\ hint_timers = 0
    /\ BatchIdle

NextCut ==
    \/ shuffle
    \/ reset
    \/ refresh_display

SpecCut == InitCut /\ [][NextCut]_vars

\* ------------------------------------------------ shuffle_image_puzzle

\* The generator of the module when the process starts: seeded from the
\* entropy of the system.
InitBatch ==
    /\ orig_img = None
    /\ img = None
    /\ grid_size = <<3, 3>>
    /\ difficulty = "medium"
    /\ fill_box = FALSE
    /\ tile_order = NoOrder
    /\ selected = <<>>
    /\ tiles = None
    /\ displayed_img_w = 0
    /\ displayed_img_h = 0
    /\ displayed_offset_x = 0
    /\ displayed_offset_y = 0
    /\ panel \in PanelSizes
    /\ status = <<"Select an image and difficulty, then click Shuffle.">>
    /\ save_btn = "disabled"
    /\ shown = NoPicture
    /\ resize_job = NoJob
    /\ resize_timers = {}
    /\ hint_timers = 0
    /\ batch_results = [k \in BatchKeys |-> NoResult]
    /\ module_rng \in 0 .. RngModulus - 1
    /\ returned = None
    /\ hash_secret = 0
    /\ input_dir = {}
    /\ output_dir = <<>>

\* A caller calls shuffle_image_puzzle(image, gs, seed) and keeps the order
\* it got, with the images it has called with for this grid and seed.
call_shuffle_image_puzzle(image, gs, seed) ==
    /\ batch_results' =
          [batch_results EXCEPT ![<<gs, seed>>] =
              [order  |-> shuffle_image_puzzle(image, gs, seed).order,
               images |-> @.images \cup {image.id}]]
    /\ module_rng' = shuffle_image_puzzle(image, gs, seed).module_rng
    /\ UNCHANGED <<gui_vars, returned, file_vars>>

NextBatch ==
    \E image \in BatchImages, gs \in BatchGrids, seed \in 0 .. MaxSeed :
        call_shuffle_image_puzzle(image, gs, seed)

SpecBatch == InitBatch /\ [][NextBatch]_vars

\* ------------------------------------- results of shuffle_image_puzzle

\* A caller calls shuffle_image_puzzle(image, gs, seed) and looks at the pair
\* it returns (test_shuffle_image_puzzle: shuffled.shape, len(order)).
test_shuffle_image_puzzle(image, gs, seed) ==
    /\ returned' = [image |-> image, gs |-> gs, seed |-> seed,
                    shuffled |-> shuffle_image_puzzle(image, gs, seed).shuffled,
                    order |-> shuffle_image_puzzle(image, gs, seed).order]
    /\ module_rng' = shuffle_image_puzzle(image, gs, seed).module_rng
    /\ UNCHANGED <<gui_vars, batch_results, file_vars>>

NextCalls ==
    \E image \in CallImages, gs \in CallGrids, seed \in 0 .. MaxSeed :
        test_shuffle_image_puzzle(image, gs, seed)

SpecCalls == InitBatch /\ [][NextCalls]_vars

\* --------------------------------------------------- process_all_images

\* The directories INPUT_DIR can be.
InputDirs == { d \in SUBSET BatchFiles : Cardinality(d) \in 1 .. MaxFiles }

\* An interpreter has started and imported the module; INPUT_DIR holds some
\* files, OUTPUT_DIR none.
InitFiles ==
    /\ orig_img = None
    /\ img = None
    /\ grid_size = <<3, 3>>
    /\ difficulty = "medium"
    /\ fill_box = FALSE
    /\ tile_order = NoOrder
    /\ selected = <<>>
    /\ tiles = None
    /\ displayed_img_w = 0
    /\ displayed_img_h = 0
    /\ displayed_offset_x = 0
    /\ displayed_offset_y = 0
    /\ panel \in PanelSizes
    /\ status = <<"Select an image and difficulty, then click Shuffle.">>
    /\ save_btn = "disabled"
    /\ shown = NoPicture
    /\ resize_job = NoJob
    /\ resize_timers = {}
    /\ hint_timers = 0
    /\ batch_results = [k \in BatchKeys |-> NoResult]
    /\ module_rng = 0
    /\ returned = None
    /\ hash_secret \in 0 .. MaxHashSecret
    /\ input_dir \in InputDirs
    /\ output_dir = <<>>

\* The interpreter ends and another one starts: it draws the key of its str
\* hashes; the directories are as the last one left them.
start_interpreter(secret) ==
    /\ hash_secret' = secret
    /\ UNCHANGED <<gui_vars, batch_results, module_rng, returned, input_dir,
                   output_dir>>

\* process_all_images(difficulty=d) with os.listdir returning the listing
process_all_images(listing, d) ==
    /\ output_dir' = process_listing(listing, 1, DIFFICULTY_GRID[d],
                                     hash_secret, output_dir)
    /\ UNCHANGED <<gui_vars, batch_results, module_rng, returned, hash_secret,
                   input_dir>>

NextFiles ==
    \/ \E secret \in 0 .. MaxHashSecret : start_interpreter(secret)
    \/ \E listing \in listdir(input_dir), d \in Difficulties :
          process_all_images(listing, d)

SpecFiles == InitFiles /\ [][NextFiles]_vars

\* ------------------------------------------------------ claim vocabulary

\* f is a bijection on {0..n-1}: every index occurs exactly once.
IsBijection(f, n) ==
    /\ DOMAIN f = 0 .. n - 1
    /\ \A v \in 0 .. n - 1 : Cardinality({i \in DOMAIN f : f[i] = v}) = 1

\* A puzzle is active: the tiles and the permutation are set.
PuzzleActive == tiles # None /\ tile_order # NoOrder

\* rows * cols of the current grid
GridCells == grid_size[1] * grid_size[2]

\* The pending position, when there is one.
Pending == selected[Len(selected)]

\* on_click(c) gets past its early returns: a puzzle is active and the click
\* resolves to a cell.
ClickHits(c) == PuzzleActive /\ ~ClickMisses(c[1], c[2])

\* The file names that decode to an image.
ImagePaths == {i.id : i \in Images}

\* A step of open_image that loads an image.
LoadStep == \E path \in ImagePaths, copied \in BOOLEAN : open_image(path, copied)

\* order with the entries at p and q exchanged and every other entry kept
Exchanged(order, p, q) ==
    [i \in DOMAIN order |->
        IF i = p THEN order[q] ELSE IF i = q THEN order[p] ELSE order[i]]

\* ------------------------------------------------------------------ C1
\* C1: in every reachable state tile_order is unset or a bijection on
\* {0..n-1}, n the number of tiles of the last shuffle: every tile index
\* occurs exactly once.
C1_PermutationIsBijection ==
    tile_order # NoOrder =>
        /\ tiles # None
        /\ IsBijection(tile_order, NumTiles(tiles))

\* A swap has been made and the puzzle is not solved.
C1_Witness ==
    /\ PuzzleActive
    /\ status[1] = "Swapped tiles"
    /\ tile_order # Range(NumTiles(tiles))

\* ------------------------------------------------------------------ C2
\* C2: whenever a puzzle is loaded (tiles set), also after another difficulty
\* was selected without reshuffling, the length of tile_order is rows * cols
\* of the current grid_size.
C2_OrderLengthMatchesGrid ==
    tiles # None => tile_order # NoOrder /\ Len0(tile_order) = GridCells

\* ------------------------------------------------------------------ C3
\* C3: immediately after every shuffle and after every successful load the
\* pending selection is empty, also when a tile had been selected before (so
\* the click that follows can only arm a selection).
C3_ShuffleAndLoadClearSelection ==
    [][(LoadStep \/ (orig_img # None /\ shuffle)) => selected' = <<>>]_vars

\* ------------------------------------------------------------------ C4
\* C4: an on_click on position q while a different position p is pending
\* exchanges the entries of the permutation at p and q, keeps every other
\* entry, empties the selection and keeps tiles and grid size.
C4_SwapExchangesTwoEntries ==
    [][\A c \in ClickPoints :
        ( /\ ClickHits(c)
          /\ selected # <<>>
          /\ Pending # ClickIndex(c[1], c[2])
          /\ on_click(c[1], c[2]) )
        => /\ Pending \in DOMAIN tile_order
           /\ ClickIndex(c[1], c[2]) \in DOMAIN tile_order
           /\ tile_order' = Exchanged(tile_order, Pending, ClickIndex(c[1], c[2]))
           /\ selected' = <<>>
           /\ tiles' = tiles
           /\ grid_size' = grid_size]_vars

\* ------------------------------------------------------------------ C5
\* C5: clicking the same position twice in a row (the first click arms the
\* selection, the second hits the pending position) leaves the permutation
\* unchanged and the selection empty.
C5_SamePositionTwiceIsNoOp ==
    [][\A c \in ClickPoints :
        (ClickHits(c) /\ on_click(c[1], c[2]))
        => /\ selected = <<>>
              => /\ tile_order' = tile_order
                 /\ selected' = <<ClickIndex(c[1], c[2])>>
           /\ (selected # <<>> /\ Pending = ClickIndex(c[1], c[2]))
              => /\ tile_order' = tile_order
                 /\ selected' = <<>>]_vars

\* The selection was armed (the status still says so) and has been toggled
\* off again, on a puzzle that is not solved.
C5_Witness ==
    /\ PuzzleActive
    /\ status[1] = "Selected tile"
    /\ selected = <<>>
    /\ tile_order # Range(NumTiles(tiles))

\* ------------------------------------------------------------------ C6
\* C6: after an on_click that swaps, Solved is reported if and only if
\* tile_order is the identity [0, 1, ..., n-1].
C6_SolvedIffIdentity ==
    [][\A c \in ClickPoints :
        ( /\ ClickHits(c)
          /\ selected # <<>>
          /\ Pending # ClickIndex(c[1], c[2])
          /\ Pending \in DOMAIN tile_order
          /\ ClickIndex(c[1], c[2]) \in DOMAIN tile_order
          /\ on_click(c[1], c[2]) )
        => ( status' = <<"Solved! Congratulations!">>
             <=> tile_order' = Range(Len0(tile_order')) )]_vars

\* ------------------------------------------------------------------ C7
\* C7: reset with a puzzle loaded sets the permutation to the identity and
\* clears the pending selection, without re-partitioning or reshuffling.
C7_ResetClearsSelection ==
    [][(tiles # None /\ reset)
        => /\ tile_order' = Range(NumTiles(tiles))
           /\ selected' = <<>>
           /\ tiles' = tiles
           /\ img' = img]_vars

\* ------------------------------------------------------------------ C8
\* C8 as stated: a successful load leads to Ready: the tiles are the
\* partition of the loaded image and the permutation is the identity.
C8_LoadLeadsToReady ==
    [][LoadStep
        => /\ tiles' = Partition(img', grid_size')
           /\ tile_order' = Range(NumTiles(tiles'))]_vars

\* C8 amended: a successful load from any state sets the base and the
\* working image to the loaded image and unsets tiles and permutation, and
\* while the load's status stands no puzzle is active (clicks are ignored
\* until a shuffle).
C8_LoadUnsetsPuzzle ==
    [][/\ \A path \in ImagePaths, copied \in BOOLEAN :
            open_image(path, copied)
            => /\ orig_img' = imread(path)
               /\ img' = imread(path)
               /\ tiles' = None
               /\ tile_order' = NoOrder
       /\ (status'[1] \in {"Loaded", "Could not copy"}) => NoPuzzle']_vars

\* An image was loaded over an active puzzle that had a pending selection.
C8_Witness ==
    /\ status[1] = "Loaded"
    /\ tiles = None
    /\ selected # <<>>

\* ------------------------------------------------------------------ C9
\* C9: the selection holds zero or one position, and a pending position is
\* a valid position of the current puzzle: below the length of tile_order
\* and below rows * cols of the current grid.
C9_PendingPositionIsValid ==
    /\ Len(selected) <= 1
    /\ (selected # <<>> /\ tile_order # NoOrder)
        => /\ 0 <= Pending
           /\ Pending < Len0(tile_order)
           /\ Pending < GridCells

\* ----------------------------------------------------------------- C10
\* C10: on_click while no puzzle is available (nothing loaded, or an image
\* loaded and no tiles yet) changes nothing: tiles, permutation, selection,
\* grid size (and the rest of the state) stay as they are.
C10_ClickWithoutPuzzleIsNoOp ==
    [][\A c \in ClickPoints :
        ((tiles = None \/ tile_order = NoOrder) /\ on_click(c[1], c[2]))
        => UNCHANGED vars]_vars

\* An image is displayed, no tiles exist, and a click point lies on the
\* displayed image.
C10_Witness ==
    /\ orig_img # None
    /\ tiles = None
    /\ \E c \in ClickPoints : ~ClickMisses(c[1], c[2])
    /\ selected # <<>>

\* ----------------------------------------------------------------- C11
\* C11: shuffle while no image is loaded changes nothing but the status,
\* which reports the error: base image, tiles, permutation, selection and
\* grid size stay as they are.
C11_ShuffleUnloadedIsNoOp ==
    [][(orig_img = None /\ shuffle)
        => /\ status' = <<"Load an image first.">>
           /\ UNCHANGED <<orig_img, img, tiles, tile_order, selected,
                          grid_size>>]_vars

\* Shuffle was pressed with nothing loaded, after a difficulty was chosen
\* that is not the grid of the constructor.
C11_Witness ==
    /\ orig_img = None
    /\ status = <<"Load an image first.">>
    /\ grid_size = DIFFICULTY_GRID["hard"]

\* ----------------------------------------------------------------- C12
\* the click position p lies on the displayed image rectangle
InsideImage(p) ==
    /\ displayed_offset_x <= p[1]
    /\ p[1] < displayed_offset_x + displayed_img_w
    /\ displayed_offset_y <= p[2]
    /\ p[2] < displayed_offset_y + displayed_img_h

\* C12: a click outside the displayed image rectangle (x or y before the
\* display offset, or at or after offset + displayed size) is a miss: the
\* coordinate translation rejects every such position, and an on_click at
\* such a position leaves the permutation and the pending selection (and the
\* rest of the state) unchanged.
C12_ClickOutsideImageIsMiss ==
    /\ [](\A p \in PointerSamples : ~InsideImage(p) => ClickMisses(p[1], p[2]))
    /\ [][\A c \in MapperClicks :
            (~InsideImage(c) /\ on_click(c[1], c[2]))
            => UNCHANGED <<tile_order, selected, tiles, grid_size>>]_vars

\* A puzzle with a pending selection, in a panel where the image has a
\* letterbox and a delivered click lands in it.
C12_Witness ==
    /\ PuzzleActive
    /\ selected # <<>>
    /\ displayed_offset_x > 0
    /\ \E c \in MapperClicks : ~InsideImage(c) /\ c[1] < displayed_offset_x

\* ----------------------------------------------------------------- C13
\* the displayed rectangle of cell (r, c) contains the click position p:
\* c * dw / gw <= x < (c + 1) * dw / gw, and likewise for the row
CellRectContains(r, c, p) ==
    /\ c * displayed_img_w <= (p[1] - displayed_offset_x) * grid_size[2]
    /\ (p[1] - displayed_offset_x) * grid_size[2] < (c + 1) * displayed_img_w
    /\ r * displayed_img_h <= (p[2] - displayed_offset_y) * grid_size[1]
    /\ (p[2] - displayed_offset_y) * grid_size[1] < (r + 1) * displayed_img_h

\* the pixel at the centre of displayed cell (r, c)
CellCenter(r, c) ==
    <<displayed_offset_x + ((2 * c + 1) * displayed_img_w) \div (2 * grid_size[2]),
      displayed_offset_y + ((2 * r + 1) * displayed_img_h) \div (2 * grid_size[1])>>

\* C13: every position inside the displayed image resolves to a cell
\* (row, col) of the grid, 0 <= row < rows and 0 <= col < cols, whose
\* displayed rectangle contains the position; the centre of displayed cell
\* (r, c) resolves to position r * cols + c; and an on_click inside the
\* image with no selection pending arms the position of the cell whose
\* rectangle contains the click.
C13_ClickResolvesContainingCell ==
    /\ [](displayed_img_w > 0 =>
            /\ \A p \in PointerSamples : InsideImage(p) =>
                  /\ ~ClickMisses(p[1], p[2])
                  /\ 0 <= ClickRow(p[2]) /\ ClickRow(p[2]) < grid_size[1]
                  /\ 0 <= ClickCol(p[1]) /\ ClickCol(p[1]) < grid_size[2]
                  /\ CellRectContains(ClickRow(p[2]), ClickCol(p[1]), p)
            /\ \A r \in 0 .. grid_size[1] - 1, c \in 0 .. grid_size[2] - 1 :
                  /\ ~ClickMisses(CellCenter(r, c)[1], CellCenter(r, c)[2])
                  /\ ClickIndex(CellCenter(r, c)[1], CellCenter(r, c)[2])
                        = r * grid_size[2] + c)
    /\ [][\A c \in MapperClicks :
            (PuzzleActive /\ InsideImage(c) /\ selected = <<>>
                /\ on_click(c[1], c[2]))
            => \E k \in 0 .. GridCells - 1 :
                  /\ CellRectContains(k \div grid_size[2], k % grid_size[2], c)
                  /\ selected' = <<k>>]_vars

\* The 200 x 200 image in the 400 x 300 panel, 4 x 4 grid: the image is
\* displayed 300 x 300 at offset (50, 0), and the click at the centre of
\* displayed cell (1, 2) has armed position 1 * 4 + 2.
C13_Witness ==
    /\ PuzzleActive
    /\ panel = <<400, 300>>
    /\ orig_img.h = 200 /\ orig_img.w = 200
    /\ grid_size = <<4, 4>>
    /\ tiles.gh = 4
    /\ displayed_img_w = 300 /\ displayed_img_h = 300
    /\ displayed_offset_x = 50 /\ displayed_offset_y = 0
    /\ CellCenter(1, 2) = <<237, 112>>
    /\ selected = <<6>>
    /\ status = <<"Selected tile", 7>>

\* ----------------------------------------------------------------- C14
\* C14: every operation that gets past its guard runs to its last statement
\* in every reachable state: reset, a swapping click, shuffle and export
\* report their result in the status, show_hint schedules its revert, and
\* the hint revert and the resize re-render of an active puzzle put the
\* puzzle on the panel; none stops at an index out of range.
C14_EveryOperationCompletes ==
    [][/\ (tiles # None /\ reset) => status' = <<"Reset to original.">>
       /\ \A c \in DisplayClicks :
            ( /\ ClickHits(c)
              /\ selected # <<>>
              /\ Pending # ClickIndex(c[1], c[2])
              /\ on_click(c[1], c[2]) )
            => status'[1] \in {"Solved! Congratulations!", "Swapped tiles"}
       /\ (orig_img # None /\ shuffle)
            => status' = <<"Shuffled! Click tiles to swap.">>
       /\ (orig_img # None /\ PuzzleActive /\ show_hint)
            => hint_timers' = hint_timers + 1
       /\ (PuzzleActive /\ hint_revert) => shown' = "puzzle"
       /\ (PuzzleActive /\ \E job \in resize_timers : resize_update(job))
            => shown' = "puzzle"
       /\ (PuzzleActive /\ \E name \in SaveNames : save_output(name))
            => status' = <<"Saved puzzle + solution to output/">>]_vars

\* ----------------------------------------------------------------- C15
\* C15: a click that arrives while a hint revert is pending is processed by
\* the two-click protocol on tile_order: with no selection pending it arms
\* the clicked position, on the pending position it disarms, and on another
\* position of the permutation it exchanges the entries of tile_order at the
\* two positions, whatever the panel shows.
C15_HintDoesNotBlockClicks ==
    [][\A c \in DisplayClicks :
        (hint_timers > 0 /\ ClickHits(c) /\ on_click(c[1], c[2]))
        => /\ selected = <<>>
              => /\ selected' = <<ClickIndex(c[1], c[2])>>
                 /\ tile_order' = tile_order
           /\ (selected # <<>> /\ Pending = ClickIndex(c[1], c[2]))
              => /\ selected' = <<>>
                 /\ tile_order' = tile_order
           /\ ( /\ selected # <<>>
                /\ Pending # ClickIndex(c[1], c[2])
                /\ Pending \in DOMAIN tile_order
                /\ ClickIndex(c[1], c[2]) \in DOMAIN tile_order )
              => /\ selected' = <<>>
                 /\ tile_order' =
                      Exchanged(tile_order, Pending, ClickIndex(c[1], c[2]))]_vars

\* A swap has put the puzzle back on the panel while the revert of a hint
\* is still pending and no resize re-render has run or is due.
C15_Witness ==
    /\ PuzzleActive
    /\ hint_timers > 0
    /\ shown = "puzzle"
    /\ status[1] = "Swapped tiles"
    /\ resize_job = NoJob
    /\ panel = <<400, 300>>
    /\ tile_order # Range(NumTiles(tiles))

\* ----------------------------------------------------------------- C16
\* C16: at most one resize re-render is pending, and it is the one whose
\* handle is stored; a resize notification of the root leaves exactly one
\* pending (the one before is cancelled, so a burst of notifications gives
\* one re-render); the re-render that runs clears the handle and leaves none
\* pending.
C16_ResizeIsDebounced ==
    /\ [](/\ Cardinality(resize_timers) <= 1
          /\ resize_timers = IF resize_job = NoJob THEN {} ELSE {resize_job})
    /\ [][/\ \A size \in DisplayPanelSizes :
                on_configure("root", size)
                => /\ Cardinality(resize_timers') = 1
                   /\ resize_job' \in resize_timers'
           /\ \A job \in resize_timers :
                resize_update(job)
                => /\ resize_job' = NoJob
                   /\ resize_timers' = {}]_vars

\* A re-render is pending: the window has gone from the 400 x 300 panel to
\* the 500 x 300 one and back, and the puzzle on the panel still has the
\* geometry of the 500 x 300 panel.
C16_Witness ==
    /\ PuzzleActive
    /\ resize_job # NoJob
    /\ resize_timers = {resize_job}
    /\ panel = <<400, 300>>
    /\ displayed_offset_x = 100

\* ----------------------------------------------------------------- C17
\* C17: at any time at most one hint revert is pending (a hint requested
\* while one is pending replaces it).
C17_AtMostOneHintRevertPending == hint_timers <= 1

\* ----------------------------------------------------------------- C18
\* C18: a hint on the panel is transient: when callbacks that are due run,
\* the panel eventually shows the puzzle in its current arrangement again,
\* or the puzzle is no longer loaded.
C18_HintIsTransient ==
    (shown = "hint" /\ hint_timers > 0) ~> (shown = "puzzle" \/ ~PuzzleActive)

\* ----------------------------------------------------------------- C19
\* C19: a call of shuffle_image_puzzle with a grid and seed returns the
\* order that every earlier call with this grid and seed returned, whatever
\* the image and whatever calls were made before or in between, and leaves
\* the generator of the module alone; every order returned is a bijection
\* on {0..rows*cols-1}.
C19_SeededShuffleIsDeterministic ==
    /\ [](\A k \in BatchKeys :
            batch_results[k].order # NoOrder
            => IsBijection(batch_results[k].order, k[1][1] * k[1][2]))
    /\ [][\A image \in BatchImages, gs \in BatchGrids, seed \in 0 .. MaxSeed :
            call_shuffle_image_puzzle(image, gs, seed)
            => /\ module_rng' = module_rng
               /\ batch_results[<<gs, seed>>].order # NoOrder
                  => batch_results'[<<gs, seed>>].order
                        = batch_results[<<gs, seed>>].order]_vars

\* Every grid and seed has been called with both images, and the orders of
\* the 4 x 4 grid are shuffled and differ between the two seeds.
C19_Witness ==
    /\ \A k \in BatchKeys : batch_results[k].images = {i.id : i \in BatchImages}
    /\ batch_results[<<<<4, 4>>, 0>>].order # Range(16)
    /\ batch_results[<<<<4, 4>>, 0>>].order # batch_results[<<<<4, 4>>, 1>>].order

FreshOrders(n) ==
    { [i \in 0 .. n - 1 |-> IF i < ShuffleSpan THEN p[i + 1] - 1 ELSE i] :
        p \in { q \in [1 .. ShuffleSpan -> 1 .. ShuffleSpan] :
                    \A v \in 1 .. ShuffleSpan : \E i \in 1 .. ShuffleSpan : q[i] = v } }

Processed(f) == Supported(f.name) /\ f.decodes

\* No other file of INPUT_DIR has the root of f.
UniqueRoot(f) == \A g \in input_dir : g.name[1] = f.name[1] => g = f

\* The step is a run of process_all_images with difficulty d.
BatchRun(d) == \E listing \in listdir(input_dir) : process_all_images(listing, d)

\* The number of tiles of difficulty d.
TilesOf(d) == DIFFICULTY_GRID[d][1] * DIFFICULTY_GRID[d][2]

\* C21: a run of process_all_images records, for a file that an earlier run
\* (of this or of another interpreter) has processed with the same
\* difficulty, the tile_order that the earlier run recorded.  Stated for the
\* files that share their root with no other file, whose record is theirs.
C21_SeedIsFunctionOfName ==
    [][\A d \in Difficulties :
          BatchRun(d) =>
            \A f \in input_dir :
              ( /\ Processed(f) /\ UniqueRoot(f)
                /\ SolutionName(f.name) \in DOMAIN output_dir
                /\ Len0(output_dir[SolutionName(f.name)].tile_order) = TilesOf(d) )
              => output_dir'[SolutionName(f.name)].tile_order
                    = output_dir[SolutionName(f.name)].tile_order]_vars

\* C22: once process_all_images has run, every supported and readable image
\* of INPUT_DIR has its puzzle image shuffled_<name> and its solution record
\* solution_map_<root>, and the tile_order of the record is the permutation
\* that was applied to that image (the arrangement of its puzzle image).
C22_EveryImageHasItsOwnRecord ==
    \A f \in input_dir :
        (Processed(f) /\ output_dir # <<>>)
        => /\ ShuffledName(f.name) \in DOMAIN output_dir
           /\ SolutionName(f.name) \in DOMAIN output_dir
           /\ output_dir[SolutionName(f.name)].tile_order
                 = output_dir[ShuffledName(f.name)].cells

\* The image as the grid gs cuts it: every tile at its own position, the
\* pixels outside the tiles its own ("source"), nothing drawn on it.
Uncut(image, gs) ==
    [h |-> image.h, w |-> image.w,
     th |-> image.h \div gs[1], tw |-> image.w \div gs[2],
     src |-> image.id, cells |-> Range(gs[1] * gs[2]),
     rest |-> IF Remainder(image, gs) = "none" THEN "none" ELSE "source",
     lines |-> [rows |-> <<>>, cols |-> <<>>],
     numbers |-> <<>>]

\* The picture a reader of the two files rebuilds: the tile found at position
\* p of the written image, with what is drawn on it, moved to order[p].
Undo(written, order) ==
    [written EXCEPT
       !.cells = [q \in DOMAIN order |->
                    written.cells[CHOOSE p \in DOMAIN order : order[p] = q]],
       !.numbers = [q \in DOMAIN order |->
                    written.numbers[CHOOSE p \in DOMAIN order : order[p] = q]]]

\* What the run of the step writes for the file f: its puzzle image, and the
\* solution record of the same turn of the loop.
WrittenImage(f) == output_dir'[ShuffledName(f.name)]
WrittenOrder(f, d) ==
    process_file(f, DIFFICULTY_GRID[d], hash_secret,
                 <<>>)[SolutionName(f.name)].tile_order

\* C23 as stated: moving the tile found at each position p of the written
\* shuffled image to position tile_order[p] gives the original image.
C23_UndoGivesOriginalImage ==
    [][\A d \in Difficulties :
          BatchRun(d) =>
            \A f \in input_dir :
              Processed(f)
              => Undo(WrittenImage(f), WrittenOrder(f, d))
                    = Uncut(imread_file(f), DIFFICULTY_GRID[d])]_vars

\* C23: moving the tile found at each position p of the written shuffled
\* image to position tile_order[p], tile_order being the record written with
\* that image, puts every tile of the original back at its own position,
\* the tiles being the th x tw cuts of the original; the picture rebuilt has
\* the size of the original, carries the grid lines and a number on every
\* tile, and holds zeros where the original has pixels outside the tiles.
C23_UndoRestoresArrangement ==
    [][\A d \in Difficulties :
          BatchRun(d) =>
            \A f \in input_dir :
              Processed(f)
              => LET rebuilt == Undo(WrittenImage(f), WrittenOrder(f, d))
                     orig    == Uncut(imread_file(f), DIFFICULTY_GRID[d])
                 IN  /\ rebuilt.cells = orig.cells
                     /\ rebuilt.src = orig.src
                     /\ <<rebuilt.h, rebuilt.w, rebuilt.th, rebuilt.tw>>
                           = <<orig.h, orig.w, orig.th, orig.tw>>
                     /\ rebuilt.numbers = Range(TilesOf(d))
                     /\ rebuilt.lines.rows # <<>> /\ rebuilt.lines.cols # <<>>
                     /\ rebuilt.rest = IF orig.rest = "none" THEN "none"
                                       ELSE "zeros"]_vars

\* A run has written, for an image whose sides are multiples of the grid, a
\* puzzle whose tiles are not where they were, and a record with it.
C23_Witness ==
    \E f \in input_dir :
        /\ Processed(f)
        /\ ShuffledName(f.name) \in DOMAIN output_dir
        /\ SolutionName(f.name) \in DOMAIN output_dir
        /\ output_dir[ShuffledName(f.name)].rest = "none"
        /\ output_dir[ShuffledName(f.name)].cells
              # Range(Len0(output_dir[ShuffledName(f.name)].cells))
        /\ output_dir[SolutionName(f.name)].tile_order
              = output_dir[ShuffledName(f.name)].cells

\* The image laid out on the grid gs: its shape, and at every position the
\* th x tw region of the image that lies there.
Whole(image, gs) ==
    [id    |-> image.id,
     h     |-> image.h,
     w     |-> image.w,
     cells |-> [p \in 0 .. gs[1] * gs[2] - 1 |->
                  [src |-> image.id, row |-> p \div gs[2], col |-> p % gs[2],
                   h |-> image.h \div gs[1], w |-> image.w \div gs[2]]]]

\* C24: a reset that follows a shuffle installs the order 0, 1, ... and
\* shows a puzzle that is the working image self.img: the same shape, and at
\* every position the region of self.img that lies there, whatever the shape
\* of the loaded image, the grid tier and the Fill Box setting.
C24_ResetReassemblesBaseImage ==
    [][(status = <<"Shuffled! Click tiles to swap.">> /\ reset)
        => /\ tile_order' = Range(GridCells)
           /\ assemble(tiles', tile_order', grid_size') = Whole(img', grid_size')
           /\ shown' = "puzzle"]_vars

\* A reset has followed a shuffle that cut the loaded image down to a
\* multiple of the grid; the identity is installed.
C24_Witness ==
    /\ status = <<"Reset to original.">>
    /\ PuzzleActive
    /\ tile_order = Range(GridCells)
    /\ img.h < orig_img.h
    /\ assemble(tiles, tile_order, grid_size) = Whole(img, grid_size)

\* C25, batch path: the image that a run writes for a file of shape H x W
\* has the shape (rows * floor(H / rows), cols * floor(W / cols)), and no
\* pixels outside the tiles.
C25_OutputIsTruncatedToGrid ==
    [][\A d \in Difficulties :
          BatchRun(d) =>
            \A f \in input_dir :
              Processed(f)
              => LET gs == DIFFICULTY_GRID[d]
                 IN  /\ WrittenImage(f).h = gs[1] * (f.h \div gs[1])
                     /\ WrittenImage(f).w = gs[2] * (f.w \div gs[2])
                     /\ WrittenImage(f).rest = "none"]_vars

\* C26: what shuffle_image_puzzle returns is an image of the height and the
\* width of its input and an order of rows * cols entries, the positions
\* 0 .. rows * cols - 1.
C26_ResultHasInputShape ==
    returned # None
    => /\ returned.shuffled.h = returned.image.h
       /\ returned.shuffled.w = returned.image.w
       /\ Len0(returned.order) = returned.gs[1] * returned.gs[2]
       /\ DOMAIN returned.order = 0 .. returned.gs[1] * returned.gs[2] - 1

\* A call has returned for an image whose sides are no multiples of a grid
\* that is not square.
C26_Witness ==
    /\ returned # None
    /\ returned.gs[1] # returned.gs[2]
    /\ returned.image.h % returned.gs[1] # 0
    /\ returned.image.w % returned.gs[2] # 0
    /\ returned.image.h # returned.image.w
    /\ returned.order # Range(Len0(returned.order))

\* C27: a call of shuffle_image_puzzle whose truncated tile size
\* floor(H / rows) or floor(W / cols) is below one pixel returns nothing:
\* what a call has returned, it has returned for tiles of one pixel or more.
C27_SmallImageIsRefused ==
    returned # None
    => /\ returned.image.h \div returned.gs[1] >= 1
       /\ returned.image.w \div returned.gs[2] >= 1

\* C28: a click or a reset that finds a permutation whose length is not
\* rows * cols assembles no image and updates nothing of the puzzle: the
\* permutation and the picture on the panel are as they were.
C28_MismatchedPermutationAborts ==
    [][( /\ PuzzleActive
         /\ Len0(tile_order) # GridCells
         /\ (reset \/ \E c \in ClickPoints : on_click(c[1], c[2])) )
        => /\ tile_order' = tile_order
           /\ UNCHANGED display_vars]_vars

\* The step is an open_image on a file that cv2.imread cannot decode.
FailedLoadStep ==
    \E path \in DialogPaths \ ({""} \cup ImagePaths), copied \in BOOLEAN :
        open_image(path, copied)

\* C29: a load whose file cannot be decoded reports "Failed to load image."
\* and leaves the base image, the working image, the tiles, the permutation,
\* the selection and the state of the save button as they were.
C29_FailedLoadPreservesState ==
    [][FailedLoadStep
        => /\ status' = <<"Failed to load image.">>
           /\ UNCHANGED <<orig_img, img, tiles, tile_order, selected, save_btn>>]_vars

\* A load has failed while a shuffled puzzle with a pending selection was
\* on the panel and saving was enabled.
C29_Witness ==
    /\ status = <<"Failed to load image.">>
    /\ PuzzleActive
    /\ ~IsSolved(tile_order)
    /\ selected # <<>>
    /\ save_btn = "normal"

\* on_click at c gets past its guards with a selection pending on another
\* position, and raises: the IndexError of the swap (a position outside the
\* permutation) or the IndexError of _assemble (a grid with more positions
\* than the permutation).
ClickRaises(c) ==
    /\ ClickHits(c)
    /\ selected # <<>>
    /\ Pending # ClickIndex(c[1], c[2])
    /\ \/ Pending \notin DOMAIN tile_order
       \/ ClickIndex(c[1], c[2]) \notin DOMAIN tile_order
       \/ AssembleRaises(tile_order, grid_size)

\* C30: an on_click call that raises leaves the permutation and the pending
\* selection as they were before the call.
C30_FailedClickChangesNothing ==
    [][\A c \in ClickPoints :
          (ClickRaises(c) /\ on_click(c[1], c[2]))
          => /\ tile_order' = tile_order
             /\ selected' = selected]_vars

\* ------------------------------------------------- claims of the export

\* The file n of OUTPUT_DIR was written by save_output.
Exported(n) == n \in DOMAIN output_dir /\ "lines" \in DOMAIN output_dir[n]

\* A step of save_output, under any name of the input file
SaveStep == \E name \in SaveNames : save_output(name)

\* C31: save_output leaves tiles, tile_order, the pending selection, the base
\* image, the working image and the grid size as they were, in every state
\* in which it is called.
C31_ExportKeepsPuzzleState ==
    [][SaveStep => UNCHANGED <<tiles, tile_order, selected, orig_img, img,
                              grid_size>>]_vars

\* Files have been exported from a puzzle that is not solved and has a
\* selection pending.
C31_Witness ==
    /\ PuzzleActive
    /\ ~IsSolved(tile_order)
    /\ selected # <<>>
    /\ status = <<"Saved puzzle + solution to output/">>
    /\ \E n \in DOMAIN output_dir : Exported(n)

\* The solution files written by save_output
SolutionFiles == { n \in DOMAIN output_dir : "labels" \in DOMAIN output_dir[n] }

\* The solution reference of the image i under the grid gs, drawn on a
\* picture of height h and width w: the image in its original arrangement,
\* the grid lines, and the number r * cols + c + 1 in cell (r, c).
Reference(i, gs, h, w) ==
    [image  |-> [id |-> i.id, h |-> h, w |-> w],
     lines  |-> [rows |-> [k \in 1 .. gs[1] - 1 |-> k * (h \div gs[1])],
                 cols |-> [k \in 1 .. gs[2] - 1 |-> k * (w \div gs[2])]],
     labels |-> [idx \in 0 .. gs[1] * gs[2] - 1 |->
                   [row |-> idx \div gs[2], col |-> idx % gs[2],
                    txt |-> (idx \div gs[2]) * gs[2] + (idx % gs[2]) + 1]]]

\* C32: the solution file that save_output writes holds the working image in
\* its original arrangement with the cells numbered 1 .. rows * cols in
\* row-major order, whatever tile_order is at the time of the export.
C32_SolutionIsTheOriginalArrangement ==
    [][SaveStep =>
         \A n \in SolutionFiles' \ SolutionFiles :
             /\ output_dir'[n] = Reference(img, grid_size, img.h, img.w)
             /\ \A idx \in DOMAIN output_dir'[n].labels :
                   output_dir'[n].labels[idx].txt \in 1 .. GridCells
             /\ { output_dir'[n].labels[idx].txt :
                    idx \in DOMAIN output_dir'[n].labels } = 1 .. GridCells]_vars

\* A solution file has been written while the puzzle was not in its original
\* arrangement.
C32_Witness ==
    /\ PuzzleActive
    /\ ~IsSolved(tile_order)
    /\ status = <<"Saved puzzle + solution to output/">>
    /\ SolutionFiles # {}

\* The name b = <<n, e>> with the numeric suffix i: n_i e
Suffixed(b, i) == b[1] \o "_" \o ToString(i) \o b[2]

\* The name p is what a search for a free name may return for b in a
\* directory that holds the files names: the plain name when it is free,
\* else the first free name with a numeric suffix.
FreeNameFor(p, names, b) ==
    /\ p \notin names
    /\ \/ p = b[1] \o b[2]
       \/ /\ b[1] \o b[2] \in names
          /\ \E i \in 1 .. Cardinality(names) + 1 :
                /\ p = Suffixed(b, i)
                /\ \A j \in 1 .. i - 1 : Suffixed(b, j) \in names

\* C33: in every directory that is reached and for every name of the input
\* file, the search of save_output for the puzzle path and for the solution
\* path returns names of files that do not exist, with a numeric suffix when
\* the plain name is taken; and a save_output step that writes replaces no
\* file: every file that was there is there unchanged, and two files are new.
C33_SaveNeverOverwrites ==
    /\ [](\A name \in SaveNames :
            \A stem \in { name \o "_puzzle", name \o "_solution" } :
                FreeNameFor(unique(DOMAIN output_dir, <<stem, ".png">>),
                            DOMAIN output_dir, <<stem, ".png">>))
    /\ [][(SaveStep /\ output_dir' # output_dir)
          => /\ \A n \in DOMAIN output_dir :
                   n \in DOMAIN output_dir' /\ output_dir'[n] = output_dir[n]
             /\ Cardinality(DOMAIN output_dir' \ DOMAIN output_dir) = 2]_vars

\* The puzzle was exported into a directory that held a_puzzle.png of an
\* earlier session: the old file is still there, the new one has a suffix.
C33_Witness ==
    /\ "a_puzzle.png" \in DOMAIN output_dir
    /\ ~Exported("a_puzzle.png")
    /\ Exported("a_puzzle_1.png")
    /\ Exported("a_solution.png")

\* ------------------------------------------------ claims of the overlay

\* The picture that shuffle_image_puzzle returns for the file f in the run of
\* the step, before the overlay is drawn on a copy of it.
ShuffledImage(f, d) ==
    shuffle_image_puzzle(imread_file(f), DIFFICULTY_GRID[d],
                         SeedOf(f.name, hash_secret)).shuffled

RenderStep ==
    \/ \E widget \in ConfigureWidgets, size \in DisplayPanelSizes :
            on_configure(widget, size)
    \/ \E job \in resize_timers : resize_update(job)
    \/ show_hint
    \/ hint_revert

\* C35: a resize notification, the debounced re-render, show_hint and the
\* revert of a hint leave tiles, tile_order, the pending selection and the
\* grid size as they were, and with them the images, the difficulty, the Fill
\* Box setting, the status text and the Save button: they change the panel
\* size, the display geometry, the picture on the panel and the pending
\* callbacks only.
C35_RenderingOwnsNoPuzzleState ==
    [][RenderStep => UNCHANGED <<tiles, tile_order, selected, grid_size,
                                orig_img, img, difficulty, fill_box, status,
                                save_btn>>]_vars

\* A puzzle that is not solved, with a selection pending, has been re-rendered
\* for the 500 x 300 panel after a resize, and a hint is on the panel.
C35_Witness ==
    /\ PuzzleActive
    /\ ~IsSolved(tile_order)
    /\ selected # <<>>
    /\ panel = <<500, 300>>
    /\ displayed_offset_x = 100
    /\ resize_timers = {}
    /\ shown = "hint"
    /\ hint_timers > 0

\* The geometry _show_cv computes for a puzzle in the panel as it is now; the
\* puzzle and the hint have the proportions of the working image.
CurrentGeometry == FitGeometry(PanelW, PanelH, img.w, img.h)

\* The geometry on_click reads
StoredGeometry ==
    <<displayed_img_w, displayed_img_h, displayed_offset_x, displayed_offset_y>>

\* C36: every click that is processed while a puzzle is active is mapped with
\* the geometry of the panel size of the moment of the click.
C36_ClicksUseCurrentGeometry ==
    [][\A c \in DisplayClicks :
          (PuzzleActive /\ on_click(c[1], c[2]))
          => StoredGeometry = CurrentGeometry]_vars

\* ------------------------------------------------- claims of Fill Box

\* C37: a toggle of Fill Box while a puzzle is active is a shuffle: after it
\* the grid is the one of the current difficulty, the tiles are the partition
\* of the new working image under that grid, and tile_order is one of the
\* orders a shuffle draws, a bijection on 0 .. rows * cols - 1, whatever the
\* player's arrangement was; a toggle while no puzzle is active changes no
\* puzzle state.
C37_FillBoxToggleReshuffles ==
    [][refresh_display =>
         /\ fill_box' = ~fill_box
         /\ IF PuzzleActive
            THEN /\ grid_size' = DIFFICULTY_GRID[difficulty]
                 /\ tiles' = Partition(img', grid_size')
                 /\ NumTiles(tiles') = GridCells'
                 /\ tile_order' \in FreshOrders(GridCells')
                 /\ IsBijection(tile_order', GridCells')
            ELSE UNCHANGED puzzle_vars]_vars

\* Fill Box is on and the puzzle on the panel was cut from an image cropped
\* to the panel by a silent shuffle; a selection of the arrangement before
\* is still pending.
C37_Witness ==
    /\ fill_box
    /\ PuzzleActive
    /\ img.w > img.h
    /\ grid_size = DIFFICULTY_GRID[difficulty]
    /\ status = <<"Difficulty", difficulty>>
    /\ selected # <<>>

\* ------------------------------------ tiles and tile_order move together

\* C39: in every reachable state tiles and tile_order are both unset, or both
\* set with as many entries in tile_order as there are tiles; a load unsets
\* both, a shuffle of a loaded image sets both, and reset and a click leave
\* the length of tile_order as it was.
C39_TilesAndOrderMoveTogether ==
    /\ [](/\ (tiles = None) <=> (tile_order = NoOrder)
          /\ tiles # None => Len0(tile_order) = NumTiles(tiles))
    /\ [][/\ LoadStep => (tiles' = None /\ tile_order' = NoOrder)
          /\ (orig_img # None /\ shuffle)
                => /\ tiles' # None
                   /\ tile_order' # NoOrder
                   /\ Len0(tile_order') = NumTiles(tiles')
          /\ (reset \/ \E c \in ClickPoints : on_click(c[1], c[2]))
                => /\ Len0(tile_order') = Len0(tile_order)
                   /\ tiles' = tiles]_vars

\* A puzzle of one tier has been reset under the grid of another tier: the
\* order has the length of the tiles, not of the grid.
C39_Witness ==
    /\ PuzzleActive
    /\ status = <<"Reset to original.">>
    /\ IsSolved(tile_order)
    /\ Len0(tile_order) = NumTiles(tiles)
    /\ GridCells # NumTiles(tiles)

\* The stored geometry is one of the contain policy for the panel size p: the
\* displayed picture lies within the panel and is centred in it.
ContainGeometryFor(p) ==
    /\ displayed_offset_x >= 0
    /\ displayed_offset_y >= 0
    /\ displayed_img_w <= p[1]
    /\ displayed_img_h <= p[2]
    /\ displayed_offset_x = (p[1] - displayed_img_w) \div 2
    /\ displayed_offset_y = (p[2] - displayed_img_h) \div 2

\* The stored geometry is one that only the cover policy gives: the picture
\* is larger than the panel.
CoverGeometry == displayed_offset_x < 0 \/ displayed_offset_y < 0

\* C38: while the tiles are set, the geometry that on_click reads was
\* computed with the contain policy for a size the panel has had, whatever
\* the Fill Box setting is; geometry of the cover policy is stored only while
\* no tiles are set, when on_click returns at once.
C38_ActivePuzzleHasContainGeometry ==
    /\ tiles # None => \E p \in DisplayPanelSizes : ContainGeometryFor(p)
    /\ CoverGeometry => (tiles = None /\ NoPuzzle)

\* Fill Box is on and the puzzle, cut from an image cropped to the panel, has
\* been re-rendered after a resize with the contain policy, which here
\* differs from the cover policy.
C38_Witness ==
    /\ fill_box
    /\ PuzzleActive
    /\ panel = <<500, 300>>
    /\ resize_timers = {}
    /\ StoredGeometry = FitGeometry(PanelW, PanelH, img.w, img.h)
    /\ StoredGeometry # FillGeometry(PanelW, PanelH, img.w, img.h)

\* ------------------------------------------------- claims of solving

\* Solved is reported.
SolvedReported == status = <<"Solved! Congratulations!">>

\* The positions that order leads to from position j, added to acc.
RECURSIVE Orbit(_, _, _)
Orbit(order, j, acc) ==
    IF j \in acc \/ j \notin DOMAIN order THEN acc
    ELSE Orbit(order, order[j], acc \cup {j})

\* The number of cycles of order, the fixed positions counted.
Cycles(order) == Cardinality({ Orbit(order, i, {}) : i \in DOMAIN order })

\* The two-click swaps the player still has to make: one for every position
\* less the number of cycles; two for a puzzle in order of which Solved has
\* not been reported (one swap out of order, one back).
SwapsNeeded ==
    IF IsSolved(tile_order)
    THEN IF SolvedReported THEN 0 ELSE 2
    ELSE Len0(tile_order) - Cycles(tile_order)

\* C40: from every order a shuffle installs, the player's clicks solve the
\* puzzle in at most rows * cols - 1 two-click swaps: the number of swaps
\* still needed is at most rows * cols - 1 and is 0 exactly when tile_order is
\* the identity and Solved is reported; while it is not 0 the next click hits
\* the cell the player aims at; the first click of a pair selects and leaves
\* the order, the second one swaps and lowers the number by one; and Solved
\* is reported in the end.
C40_EveryShuffleIsSolvable ==
    /\ [](/\ SwapsNeeded <= GridCells - 1
          /\ SwapsNeeded = 0 <=> (IsSolved(tile_order) /\ SolvedReported)
          /\ SwapsNeeded > 0
               => /\ ~ClickMisses(NextClick[1], NextClick[2])
                  /\ ClickIndex(NextClick[1], NextClick[2]) = NextPick)
    /\ [][solve_click =>
            IF selected = <<>>
            THEN /\ selected' = <<NextPick>>
                 /\ tile_order' = tile_order
            ELSE /\ selected' = <<>>
                 /\ SwapsNeeded' = SwapsNeeded - 1]_vars
    /\ <>SolvedReported

\* The 5 x 5 puzzle is in order and Solved is reported.
C40_Witness ==
    /\ grid_size = <<5, 5>>
    /\ PuzzleActive
    /\ IsSolved(tile_order)
    /\ SolvedReported
    /\ selected = <<>>

====
